---- MODULE Spec2Model ----
(***************************************************************************)
(* A model of the EPG merge-and-normalize pipeline of yufeilai666/tvepg:   *)
(*   - the channel id resolvers (process_epg_file of snow_epg.py, and the  *)
(*     two-phase process_epg_file of multi_source_epg_processor.py and     *)
(*     epgnew4gtv2_cst.py, whose bodies are the same),                     *)
(*   - the document merger of snow_epg.py and unified_epg_generator.py,    *)
(*   - the time normalizers of down_epg_pw_trans.py, convert_utc2target.py *)
(*     and convert_utc2cst.py.                                             *)
(* Python strings are sequences of one-character strings, so that          *)
(* str.lower, str.split, slicing, int() and the f-strings are computed.    *)
(***************************************************************************)
EXTENDS Integers, Sequences, FiniteSets, TLC

VARIABLES
    \* ---- the resolvers ----
    doc,                      \* the children of <tv> as parsed from input_file
    pc,                       \* which loop of which program runs
    i,                        \* position of that loop
    snow_root,                \* snow_epg: the tree, mutated in place
    snow_channel_id_counter,  \* snow_epg: lower-cased id -> occurrences
    snow_current_mapping,     \* snow_epg: original id -> newest id
    snow_out,                 \* snow_epg: children of the emitted root
    ms_root,                  \* two-phase: the tree, mutated in place
    ms_channel_id_counter,    \* two-phase: lower-cased id -> occurrences
    ms_channel_id_map,        \* two-phase: original id -> last new id
    ms_all_channel_mappings,  \* two-phase: lower-cased id -> list of new ids
    ms_all_keys,              \* two-phase: insertion order of the dict above
    ms_lowercase_to_original, \* two-phase: lower-cased id -> first original id
    ms_current_mapping,       \* two-phase: first original id -> current id
    \* ---- the merger ----
    xml_files,                \* the ordered sources handed to the mergers
    current_file,             \* position of the merge loop
    merged,                   \* snow_epg: the elements written to epgziyong.xml
    success_count,            \* snow_epg: sources merged
    failed_files,             \* snow_epg: sources that failed, in order
    person,                   \* unified generator: children of the merged root
    \* ---- the time normalizers ----
    value,                    \* the start/stop attribute being normalized
    original,                 \* its value in the input document
    previous,                 \* its value before the last call
    timezone,                 \* the configured target zone string
    time_offset_minutes,      \* the channel's time_offset_minutes, or None
    direct_set_timezone,      \* the configured direct_set_timezone flag
    applied,                  \* the functions that produced value, in order
    outcome,                  \* how the last call ended: written, failed, raised
    \* ---- a run over an ordered list of sources ----
    program,                  \* the script that runs
    sources,                  \* its ordered sources
    source_index,             \* position of its loop over the sources
    attempted,                \* the sources its loop has taken up
    produced,                 \* the sources whose output was produced
    run_success_count,        \* its success_count
    scratch,                  \* the scratch files on disk
    exit_status,              \* the exit code of the process, None while it runs
    \* ---- the unified generator ----
    scripts,                  \* the discovered get_*_epg.py scripts, in order
    script_index,             \* position of the loop over the scripts
    temp_dir,                 \* the .xml files in the shared temporary directory
    all_xml_contents,         \* the collected contents, in order
    all_script_names,         \* the scripts they are attributed to, in order
    \* ---- process_programme of down_epg_pw_trans ----
    original_programme,       \* the programme element of the source
    programme,                \* the copied programme element
    source_config,            \* the configuration of its source
    channel_info,             \* the configuration of its channel
    start_policy,             \* the function applied to its start attribute
    stop_policy,              \* the function applied to its stop attribute
    \* ---- epg_test.process_epg_file ----
    test_doc,                 \* the children of <tv> as parsed from input_file
    test_i,                   \* position of the loop over root.iter()
    test_root,                \* the tree, mutated in place
    test_channel_id_counter,  \* original id -> occurrences
    test_current_mapping,     \* original id -> newest id
    \* ---- a resolver run again over its own output ----
    rerun,                    \* whose output the resolvers are now reading
    \* ---- convert_utc2target: the repair of unescaped ampersands ----
    file_content,             \* the decoded text of the input file
    xml_content,              \* the text handed to the parser
    line_index,               \* position of the loop over the lines
    repair_info,              \* the recorded repairs: line and column
    \* ---- process_epg_sources of down_epg_pw_trans ----
    epg_sources,              \* the configured sources, in order
    epg_index,                \* position of the loop over the sources
    entry_index,              \* position of the loop over source['channel_info']
    added_channels,           \* the new channel ids already emitted
    new_root,                 \* the channel elements of the new tree
    \* ---- snow_epg.process_epg_file with its statistics and its artifacts ----
    report_doc,                   \* the children of <tv> as parsed from input_file
    report_i,                     \* position of the loop over root.iter()
    report_root,                  \* the tree, mutated in place
    report_channel_id_counter,    \* lower-cased id -> occurrences
    report_current_mapping,       \* original id -> newest id
    report_channel_info,          \* new id -> program_count, min_start, max_end
    report_channel_ids_in_order,  \* the new ids, in the order of the channels
    report_out,                   \* the children of the regrouped root
    report_fault,                 \* the artifact whose write fails, if any
    report_written,               \* the artifacts written so far
    readme_rows,                  \* the table rows of README.md
    json_data,                    \* the list built for the JSON report
    json_file                     \* the list dumped into the JSON file

resolverVars == <<doc, pc, i, snow_root, snow_channel_id_counter,
                  snow_current_mapping, snow_out, ms_root,
                  ms_channel_id_counter, ms_channel_id_map,
                  ms_all_channel_mappings, ms_all_keys,
                  ms_lowercase_to_original, ms_current_mapping>>
mergeVars == <<xml_files, current_file, merged, success_count, failed_files, person>>
timeVars == <<value, original, previous, timezone, time_offset_minutes,
              direct_set_timezone, applied, outcome>>
runVars == <<program, sources, source_index, attempted, produced,
             run_success_count, scratch, exit_status>>
unifiedVars == <<scripts, script_index, temp_dir, all_xml_contents, all_script_names>>
progVars == <<original_programme, programme, source_config, channel_info, start_policy, stop_policy>>
testVars == <<test_doc, test_i, test_root, test_channel_id_counter, test_current_mapping>>
rerunVars == <<rerun>>
repairVars == <<file_content, xml_content, line_index, repair_info>>
emitVars == <<epg_sources, epg_index, entry_index, added_channels, new_root>>
reportVars == <<report_doc, report_i, report_root, report_channel_id_counter,
                report_current_mapping, report_channel_info,
                report_channel_ids_in_order, report_out, report_fault,
                report_written, readme_rows, json_data, json_file>>
laterVars == <<rerunVars, repairVars, emitVars, reportVars>>
restVars == <<runVars, unifiedVars, progVars, testVars, laterVars>>
vars == <<resolverVars, mergeVars, timeVars, restVars>>

\* the resolvers' data, without the program counter
resolverData == <<doc, i, snow_root, snow_channel_id_counter,
                  snow_current_mapping, snow_out, ms_root,
                  ms_channel_id_counter, ms_channel_id_map,
                  ms_all_channel_mappings, ms_all_keys,
                  ms_lowercase_to_original, ms_current_mapping>>

----------------------------------------------------------------------------
(* Bounds of the model *)

\* longest document handed to the resolvers
MaxLen == 4

\* most sources handed to a merger, and most elements in all of them together
MaxFiles == 2
MaxMerged == 4

----------------------------------------------------------------------------
(* Python strings and dicts *)

\* str(n) of a natural number
RECURSIVE IntToStr(_)
IntToStr(n) ==
    LET d == <<"0", "1", "2", "3", "4", "5", "6", "7", "8", "9">>
    IN  IF n < 10 THEN <<d[n + 1]>> ELSE IntToStr(n \div 10) \o <<d[(n % 10) + 1]>>

\* str.lower on one character of the alphabet used
LowerChar(c) ==
    CASE c = "A" -> "a"
      [] c = "B" -> "b"
      [] c = "C" -> "c"
      [] c = "N" -> "n"
      [] c = "E" -> "e"
      [] c = "F" -> "f"
      [] c = "L" -> "l"
      [] c = "R" -> "r"
      [] c = "S" -> "s"
      [] c = "T" -> "t"
      [] c = "U" -> "u"
      [] OTHER -> c

\* str.lower
Lower(s) == [k \in 1..Len(s) |-> LowerChar(s[k])]

\* d[k] = v on a dict
Put(d, k, v) == [y \in (DOMAIN d) \cup {k} |-> IF y = k THEN v ELSE d[y]]

\* d.get(k, default)
Get(d, k, default) == IF k \in DOMAIN d THEN d[k] ELSE default

\* the empty dict
EmptyDict == <<>>

\* x in list
InList(x, l) == \E k \in 1..Len(l) : l[k] = x

----------------------------------------------------------------------------
(* Documents *)

Channel(id) == [tag |-> "channel", id |-> id]
\* the start and stop attributes every programme of the input documents carries
ProgrammeStart == "20250830160000 +0000"
ProgrammeStop == "20250830170000 +0000"

Programme(ch) ==
    [tag |-> "programme", channel |-> ch, start |-> ProgrammeStart, stop |-> ProgrammeStop]
Other == [tag |-> "other"]

\* channel ids of the input documents: two casings of one id, an id that
\* already carries a suffix, and an unrelated id
InputIds == { <<"A">>, <<"a">>, <<"A", " ", "(", "2", ")">>, <<"B">> }

Elements == {Channel(x) : x \in InputIds} \cup {Programme(x) : x \in InputIds}
            \cup {Other}

RECURSIVE SeqsUpTo(_, _)
SeqsUpTo(S, n) ==
    IF n = 0 THEN {<<>>}
    ELSE LET shorter == SeqsUpTo(S, n - 1)
         IN  shorter \cup {Append(s, e) : s \in {t \in shorter : Len(t) = n - 1}, e \in S}

\* the document of the round-trip scenario: CNN, cnn, and a programme of each
RoundTripDoc ==
    << Channel(<<"C", "N", "N">>), Channel(<<"c", "n", "n">>),
       Programme(<<"C", "N", "N">>), Programme(<<"c", "n", "n">>) >>

Documents == SeqsUpTo(Elements, MaxLen) \cup {RoundTripDoc}

\* a renaming that numbers the k-th occurrence k - 1
NewId_OffByOne(old_id, count) ==
    IF count = 1 THEN old_id
    ELSE old_id \o <<" ", "(">> \o IntToStr(count - 1) \o <<")">>

\* the f-string of the renamed id
NewId(old_id, count) ==
    IF count = 1 THEN old_id
    ELSE old_id \o <<" ", "(">> \o IntToStr(count) \o <<")">>

\* the positions of the channel elements, as root.findall("channel") lists them
RECURSIVE ChannelPositions(_, _)
ChannelPositions(d, k) ==
    IF k > Len(d) THEN <<>>
    ELSE IF d[k].tag = "channel" THEN <<k>> \o ChannelPositions(d, k + 1)
    ELSE ChannelPositions(d, k + 1)

\* the elements of d with the given tag, in order
RECURSIVE WithTag(_, _)
WithTag(d, tag) ==
    IF d = <<>> THEN <<>>
    ELSE IF Head(d).tag = tag THEN <<Head(d)>> \o WithTag(Tail(d), tag)
    ELSE WithTag(Tail(d), tag)

\* the elements of d that are neither channel nor programme, in order
RECURSIVE Others(_)
Others(d) ==
    IF d = <<>> THEN <<>>
    ELSE IF Head(d).tag \notin {"channel", "programme"}
         THEN <<Head(d)>> \o Others(Tail(d))
    ELSE Others(Tail(d))

----------------------------------------------------------------------------
(* snow_epg.process_epg_file: one pass in document order, then regrouping *)

SnowChannel ==
    /\ pc = "snow"
    /\ i <= Len(snow_root)
    /\ snow_root[i].tag = "channel"
    /\ LET old_id == snow_root[i].id
           lower_id == Lower(old_id)
           count == Get(snow_channel_id_counter, lower_id, 0) + 1
           new_id == NewId(old_id, count)
       IN  /\ snow_channel_id_counter' = Put(snow_channel_id_counter, lower_id, count)
           /\ snow_root' = [snow_root EXCEPT ![i].id = new_id]
           /\ snow_current_mapping' = Put(snow_current_mapping, old_id, new_id)
    /\ i' = i + 1
    /\ UNCHANGED <<doc, pc, snow_out, ms_root, ms_channel_id_counter,
                   ms_channel_id_map, ms_all_channel_mappings, ms_all_keys,
                   ms_lowercase_to_original, ms_current_mapping>>
    /\ UNCHANGED <<mergeVars, timeVars, restVars>>

\* a lookup that never rewrites the reference
SnowLookup_NoRewrite(current_mapping, channel_ref) == channel_ref

\* the channel attribute a programme ends with: rewritten when the reference
\* is a key of current_mapping, left alone otherwise
SnowLookup(current_mapping, channel_ref) ==
    IF channel_ref \in DOMAIN current_mapping
    THEN current_mapping[channel_ref]
    ELSE channel_ref

SnowProgramme ==
    /\ pc = "snow"
    /\ i <= Len(snow_root)
    /\ snow_root[i].tag = "programme"
    /\ snow_root' = [snow_root EXCEPT
                        ![i].channel = SnowLookup(snow_current_mapping, snow_root[i].channel)]
    /\ i' = i + 1
    /\ UNCHANGED <<doc, pc, snow_channel_id_counter, snow_current_mapping,
                   snow_out, ms_root, ms_channel_id_counter,
                   ms_channel_id_map, ms_all_channel_mappings, ms_all_keys,
                   ms_lowercase_to_original, ms_current_mapping>>
    /\ UNCHANGED <<mergeVars, timeVars, restVars>>

SnowOther ==
    /\ pc = "snow"
    /\ i <= Len(snow_root)
    /\ snow_root[i].tag \notin {"channel", "programme"}
    /\ i' = i + 1
    /\ UNCHANGED <<doc, pc, snow_root, snow_channel_id_counter,
                   snow_current_mapping, snow_out, ms_root,
                   ms_channel_id_counter, ms_channel_id_map,
                   ms_all_channel_mappings, ms_all_keys,
                   ms_lowercase_to_original, ms_current_mapping>>
    /\ UNCHANGED <<mergeVars, timeVars, restVars>>

\* a regrouping that puts the programmes ahead of the channels
Regroup_ProgrammesFirst(root) ==
    WithTag(root, "programme") \o WithTag(root, "channel") \o Others(root)

\* a regrouping that leaves out the channels that were given a suffix
Regroup_DropSuffixed(root) ==
    SelectSeq(WithTag(root, "channel"), LAMBDA e : e.id[Len(e.id)] # ")")
        \o WithTag(root, "programme") \o Others(root)

\* channels first, then programmes, then the other elements
Regroup(root) == WithTag(root, "channel") \o WithTag(root, "programme") \o Others(root)

SnowRegroup ==
    /\ pc = "snow"
    /\ i > Len(snow_root)
    /\ snow_out' = Regroup(snow_root)
    /\ pc' = "ms_phase1"
    /\ i' = 1
    /\ UNCHANGED <<doc, snow_root, snow_channel_id_counter,
                   snow_current_mapping, ms_root, ms_channel_id_counter,
                   ms_channel_id_map, ms_all_channel_mappings, ms_all_keys,
                   ms_lowercase_to_original, ms_current_mapping>>
    /\ UNCHANGED <<mergeVars, timeVars, restVars>>

----------------------------------------------------------------------------
(* multi_source_epg_processor / epgnew4gtv2_cst process_epg_file: two phases *)

\* phase 1, one channel element of root.findall("channel")
MsPhase1Channel ==
    /\ pc = "ms_phase1"
    /\ i <= Len(ChannelPositions(ms_root, 1))
    /\ LET p == ChannelPositions(ms_root, 1)[i]
           old_id == ms_root[p].id
           lower_id == Lower(old_id)
           count == Get(ms_channel_id_counter, lower_id, 0) + 1
           new_id == NewId(old_id, count)
       IN  /\ ms_channel_id_counter' = Put(ms_channel_id_counter, lower_id, count)
           /\ ms_lowercase_to_original' =
                 IF lower_id \notin DOMAIN ms_lowercase_to_original
                 THEN Put(ms_lowercase_to_original, lower_id, old_id)
                 ELSE ms_lowercase_to_original
           /\ ms_root' = [ms_root EXCEPT ![p].id = new_id]
           /\ ms_channel_id_map' = Put(ms_channel_id_map, old_id, new_id)
           /\ ms_all_channel_mappings' =
                 Put(ms_all_channel_mappings, lower_id,
                     Append(Get(ms_all_channel_mappings, lower_id, <<>>), new_id))
           /\ ms_all_keys' = IF lower_id \in DOMAIN ms_all_channel_mappings
                             THEN ms_all_keys
                             ELSE Append(ms_all_keys, lower_id)
    /\ i' = i + 1
    /\ UNCHANGED <<doc, pc, snow_root, snow_channel_id_counter,
                   snow_current_mapping, snow_out, ms_current_mapping>>
    /\ UNCHANGED <<mergeVars, timeVars, restVars>>

MsPhase1Done ==
    /\ pc = "ms_phase1"
    /\ i > Len(ChannelPositions(ms_root, 1))
    /\ pc' = "ms_phase2"
    /\ i' = 1
    /\ UNCHANGED <<doc, snow_root, snow_channel_id_counter,
                   snow_current_mapping, snow_out, ms_root,
                   ms_channel_id_counter, ms_channel_id_map,
                   ms_all_channel_mappings, ms_all_keys,
                   ms_lowercase_to_original, ms_current_mapping>>
    /\ UNCHANGED <<mergeVars, timeVars, restVars>>

\* the first key, in insertion order, whose list holds current_id; <<>> for None
RECURSIVE FindLowerId(_, _, _, _)
FindLowerId(all, keys, current_id, k) ==
    IF k > Len(keys) THEN <<>>
    ELSE IF InList(current_id, all[keys[k]]) THEN <<keys[k]>>
    ELSE FindLowerId(all, keys, current_id, k + 1)

MsPhase2Channel ==
    /\ pc = "ms_phase2"
    /\ i <= Len(ms_root)
    /\ ms_root[i].tag = "channel"
    /\ LET current_id == ms_root[i].id
           found == FindLowerId(ms_all_channel_mappings, ms_all_keys, current_id, 1)
       IN  IF found # <<>>
           THEN ms_current_mapping' =
                    Put(ms_current_mapping, ms_lowercase_to_original[found[1]], current_id)
           ELSE ms_current_mapping' = ms_current_mapping
    /\ i' = i + 1
    /\ UNCHANGED <<doc, pc, snow_root, snow_channel_id_counter,
                   snow_current_mapping, snow_out, ms_root,
                   ms_channel_id_counter, ms_channel_id_map,
                   ms_all_channel_mappings, ms_all_keys,
                   ms_lowercase_to_original>>
    /\ UNCHANGED <<mergeVars, timeVars, restVars>>

\* a lookup that lower-cases the reference it cannot resolve
MsLookup_LowerUnresolved(lowercase_to_original, current_mapping, channel_id_map, old_channel) ==
    LET lower_channel == Lower(old_channel)
        original_id == Get(lowercase_to_original, lower_channel, old_channel)
    IN  IF original_id \in DOMAIN current_mapping THEN current_mapping[original_id]
        ELSE IF original_id \in DOMAIN channel_id_map THEN channel_id_map[original_id]
        ELSE lower_channel

\* the channel attribute a programme ends with: the current-context mapping
\* of the first-seen original id, else the last mapping produced, else the
\* reference as it was
MsLookup(lowercase_to_original, current_mapping, channel_id_map, old_channel) ==
    LET lower_channel == Lower(old_channel)
        original_id == Get(lowercase_to_original, lower_channel, old_channel)
    IN  IF original_id \in DOMAIN current_mapping THEN current_mapping[original_id]
        ELSE IF original_id \in DOMAIN channel_id_map THEN channel_id_map[original_id]
        ELSE old_channel

MsPhase2Programme ==
    /\ pc = "ms_phase2"
    /\ i <= Len(ms_root)
    /\ ms_root[i].tag = "programme"
    /\ ms_root' = [ms_root EXCEPT
                      ![i].channel = MsLookup(ms_lowercase_to_original, ms_current_mapping,
                                              ms_channel_id_map, ms_root[i].channel)]
    /\ i' = i + 1
    /\ UNCHANGED <<doc, pc, snow_root, snow_channel_id_counter,
                   snow_current_mapping, snow_out, ms_channel_id_counter,
                   ms_channel_id_map, ms_all_channel_mappings, ms_all_keys,
                   ms_lowercase_to_original, ms_current_mapping>>
    /\ UNCHANGED <<mergeVars, timeVars, restVars>>

MsPhase2Other ==
    /\ pc = "ms_phase2"
    /\ i <= Len(ms_root)
    /\ ms_root[i].tag \notin {"channel", "programme"}
    /\ i' = i + 1
    /\ UNCHANGED <<doc, pc, snow_root, snow_channel_id_counter,
                   snow_current_mapping, snow_out, ms_root,
                   ms_channel_id_counter, ms_channel_id_map,
                   ms_all_channel_mappings, ms_all_keys,
                   ms_lowercase_to_original, ms_current_mapping>>
    /\ UNCHANGED <<mergeVars, timeVars, restVars>>

MsWrite ==
    /\ pc = "ms_phase2"
    /\ i > Len(ms_root)
    /\ pc' = "done"
    /\ UNCHANGED <<doc, i, snow_root, snow_channel_id_counter,
                   snow_current_mapping, snow_out, ms_root,
                   ms_channel_id_counter, ms_channel_id_map,
                   ms_all_channel_mappings, ms_all_keys,
                   ms_lowercase_to_original, ms_current_mapping>>
    /\ UNCHANGED <<mergeVars, timeVars, restVars>>

----------------------------------------------------------------------------
(* epg_test.process_epg_file: one pass in document order, ids compared as written *)

TestChannel ==
    /\ pc = "test"
    /\ test_i <= Len(test_root)
    /\ test_root[test_i].tag = "channel"
    /\ LET old_id == test_root[test_i].id
           count == Get(test_channel_id_counter, old_id, 0) + 1
           new_id == NewId(old_id, count)
       IN  /\ test_channel_id_counter' = Put(test_channel_id_counter, old_id, count)
           /\ test_root' = [test_root EXCEPT ![test_i].id = new_id]
           /\ test_current_mapping' = Put(test_current_mapping, old_id, new_id)
    /\ test_i' = test_i + 1
    /\ UNCHANGED <<pc, test_doc>>
    /\ UNCHANGED <<resolverData, mergeVars, timeVars, laterVars, runVars, unifiedVars, progVars>>

TestProgramme ==
    /\ pc = "test"
    /\ test_i <= Len(test_root)
    /\ test_root[test_i].tag = "programme"
    /\ test_root' = [test_root EXCEPT
                        ![test_i].channel = SnowLookup(test_current_mapping,
                                                       test_root[test_i].channel)]
    /\ test_i' = test_i + 1
    /\ UNCHANGED <<pc, test_doc, test_channel_id_counter, test_current_mapping>>
    /\ UNCHANGED <<resolverData, mergeVars, timeVars, laterVars, runVars, unifiedVars, progVars>>

TestOther ==
    /\ pc = "test"
    /\ test_i <= Len(test_root)
    /\ test_root[test_i].tag \notin {"channel", "programme"}
    /\ test_i' = test_i + 1
    /\ UNCHANGED <<pc, test_doc, test_root, test_channel_id_counter, test_current_mapping>>
    /\ UNCHANGED <<resolverData, mergeVars, timeVars, laterVars, runVars, unifiedVars, progVars>>

\* the tree is written as it stands, without regrouping
TestWrite ==
    /\ pc = "test"
    /\ test_i > Len(test_root)
    /\ pc' = "test_done"
    /\ UNCHANGED testVars
    /\ UNCHANGED <<resolverData, mergeVars, timeVars, laterVars, runVars, unifiedVars, progVars>>

----------------------------------------------------------------------------
(* process_epg_file run again, over the document an earlier run has written *)

\* the document a finished run of the named resolver has written
OutputOf(which) == IF which = "snow_epg" THEN snow_out ELSE ms_root

\* the written document is parsed as the input of a second run
Rerun ==
    /\ pc = "done"
    /\ rerun = "no"
    /\ \E which \in {"snow_epg", "two_phase"} :
          /\ rerun' = which
          /\ doc' = OutputOf(which)
          /\ snow_root' = OutputOf(which)
          /\ ms_root' = OutputOf(which)
    /\ pc' = "snow"
    /\ i' = 1
    /\ snow_channel_id_counter' = EmptyDict
    /\ snow_current_mapping' = EmptyDict
    /\ snow_out' = <<>>
    /\ ms_channel_id_counter' = EmptyDict
    /\ ms_channel_id_map' = EmptyDict
    /\ ms_all_channel_mappings' = EmptyDict
    /\ ms_all_keys' = <<>>
    /\ ms_lowercase_to_original' = EmptyDict
    /\ ms_current_mapping' = EmptyDict
    /\ UNCHANGED <<mergeVars, timeVars, runVars, unifiedVars, progVars, testVars>>
    /\ UNCHANGED <<repairVars, emitVars, reportVars>>

----------------------------------------------------------------------------
(* Python string operations used by the time normalizers *)

\* an optional value: None, or the value in a one-element tuple
None == <<>>
Some(v) == <<v>>

Digits == {"0", "1", "2", "3", "4", "5", "6", "7", "8", "9"}

DigitVal(c) ==
    CASE c = "0" -> 0 [] c = "1" -> 1 [] c = "2" -> 2 [] c = "3" -> 3 [] c = "4" -> 4
      [] c = "5" -> 5 [] c = "6" -> 6 [] c = "7" -> 7 [] c = "8" -> 8 [] c = "9" -> 9

\* an exception, and a returned value
Raise == [ok |-> FALSE]
Return(v) == [ok |-> TRUE, v |-> v]

\* int(s) of a string of digits; ValueError otherwise (the model's inputs hold
\* no sign, blank or underscore inside a sliced field)
RECURSIVE DigitsValue(_)
DigitsValue(s) ==
    IF s = <<>> THEN 0 ELSE 10 * DigitsValue(SubSeq(s, 1, Len(s) - 1)) + DigitVal(s[Len(s)])

ParseInt(s) ==
    IF s # <<>> /\ \A k \in 1..Len(s) : s[k] \in Digits THEN Return(DigitsValue(s)) ELSE Raise

\* s[a:b] and s[a:]
Slice(s, a, b) == SubSeq(s, a + 1, IF b < Len(s) THEN b ELSE Len(s))
SliceFrom(s, a) == SubSeq(s, a + 1, Len(s))

StartsWith(s, prefix) == Len(s) >= Len(prefix) /\ SubSeq(s, 1, Len(prefix)) = prefix

UpperChar(c) ==
    CASE c = "u" -> "U"
      [] c = "t" -> "T"
      [] c = "c" -> "C"
      [] OTHER -> c

\* str.upper
Upper(s) == [k \in 1..Len(s) |-> UpperChar(s[k])]

\* s.split(sep) for a one-character separator: empty pieces are kept
RECURSIVE SplitOn(_, _)
SplitOn(s, sep) ==
    IF \A k \in 1..Len(s) : s[k] # sep THEN <<s>>
    ELSE LET k == CHOOSE j \in 1..Len(s) : s[j] = sep /\ \A h \in 1..(j - 1) : s[h] # sep
         IN  <<SubSeq(s, 1, k - 1)>> \o SplitOn(SubSeq(s, k + 1, Len(s)), sep)

\* s.split(): runs of blanks separate, empty pieces are dropped
RECURSIVE DropEmpty(_)
DropEmpty(l) ==
    IF l = <<>> THEN <<>>
    ELSE IF Head(l) = <<>> THEN DropEmpty(Tail(l))
    ELSE <<Head(l)>> \o DropEmpty(Tail(l))

SplitBlank(s) == DropEmpty(SplitOn(s, " "))

\* f"{n:02d}" and f"{n:04d}" of a natural number
Pad2(n) == IF n < 10 THEN <<"0">> \o IntToStr(n) ELSE IntToStr(n)
Pad4(n) ==
    IF n < 10 THEN <<"0", "0", "0">> \o IntToStr(n)
    ELSE IF n < 100 THEN <<"0", "0">> \o IntToStr(n)
    ELSE IF n < 1000 THEN <<"0">> \o IntToStr(n)
    ELSE IntToStr(n)

----------------------------------------------------------------------------
(* datetime and timedelta: a datetime is a day number and a second of the   *)
(* day, a timedelta a number of seconds                                     *)

IsLeap(y) == (y % 4 = 0 /\ y % 100 # 0) \/ y % 400 = 0

DaysInMonth(y, m) ==
    IF m = 2 THEN (IF IsLeap(y) THEN 29 ELSE 28)
    ELSE IF m \in {4, 6, 9, 11} THEN 30 ELSE 31

\* days since 1970-01-01 of a date of the proleptic Gregorian calendar
DaysFromCivil(y, m, d) ==
    LET yy == IF m <= 2 THEN y - 1 ELSE y
        era == yy \div 400
        yoe == yy - era * 400
        mp == IF m > 2 THEN m - 3 ELSE m + 9
        doy == (153 * mp + 2) \div 5 + d - 1
        doe == yoe * 365 + yoe \div 4 - yoe \div 100 + doy
    IN  era * 146097 + doe - 719468

\* the date of a day number
CivilFromDays(z) ==
    LET zz == z + 719468
        era == zz \div 146097
        doe == zz - era * 146097
        yoe == (doe - doe \div 1460 + doe \div 36524 - doe \div 146096) \div 365
        doy == doe - (365 * yoe + yoe \div 4 - yoe \div 100)
        mp == (5 * doy + 2) \div 153
        d == doy - (153 * mp + 2) \div 5 + 1
        m == IF mp < 10 THEN mp + 3 ELSE mp - 9
        y == yoe + era * 400 + (IF m <= 2 THEN 1 ELSE 0)
    IN  [year |-> y, month |-> m, day |-> d]

\* datetime.strptime(s, '%Y%m%d%H%M%S') of a 14-character string: every
\* character a digit and every field in range, ValueError otherwise
Strptime(s) ==
    IF Len(s) = 14 /\ \A k \in 1..14 : s[k] \in Digits
    THEN LET y == DigitsValue(SubSeq(s, 1, 4))
             m == DigitsValue(SubSeq(s, 5, 6))
             d == DigitsValue(SubSeq(s, 7, 8))
             H == DigitsValue(SubSeq(s, 9, 10))
             M == DigitsValue(SubSeq(s, 11, 12))
             S == DigitsValue(SubSeq(s, 13, 14))
         IN  IF /\ y >= 1 /\ m \in 1..12 /\ d >= 1 /\ d <= DaysInMonth(y, m)
                /\ H <= 23 /\ M <= 59 /\ S <= 59
             THEN Return([days |-> DaysFromCivil(y, m, d), secs |-> H * 3600 + M * 60 + S])
             ELSE Raise
    ELSE Raise

\* dt + timedelta(seconds = delta)
AddSeconds(dt, delta) ==
    LET total == dt.secs + delta
    IN  [days |-> dt.days + total \div 86400, secs |-> total % 86400]

\* dt.strftime('%Y%m%d%H%M%S')
Strftime(dt) ==
    LET c == CivilFromDays(dt.days)
    IN  Pad4(c.year) \o Pad2(c.month) \o Pad2(c.day) \o Pad2(dt.secs \div 3600)
        \o Pad2((dt.secs % 3600) \div 60) \o Pad2(dt.secs % 60)

Abs(n) == IF n < 0 THEN -n ELSE n

----------------------------------------------------------------------------
(* down_epg_pw_trans.py: the three time policies *)

\* parse_timezone_offset: "UTC+8", "UTC-5", "UTC8", "+08:00"; anything else,
\* and anything int() rejects, is timedelta(0)
parse_timezone_offset(timezone_str) ==
    IF StartsWith(Upper(timezone_str), <<"U", "T", "C">>)
    THEN LET offset_str == SliceFrom(timezone_str, 3)
         IN  IF StartsWith(offset_str, <<"+">>)
             THEN LET hours == ParseInt(SliceFrom(offset_str, 1))
                  IN  IF hours.ok THEN hours.v * 3600 ELSE 0
             ELSE IF StartsWith(offset_str, <<"-">>)
             THEN LET hours == ParseInt(SliceFrom(offset_str, 1))
                  IN  IF hours.ok THEN -(hours.v * 3600) ELSE 0
             ELSE LET hours == ParseInt(offset_str)
                  IN  IF hours.ok THEN hours.v * 3600 ELSE 0
    ELSE IF StartsWith(timezone_str, <<"+">>) \/ StartsWith(timezone_str, <<"-">>)
    THEN LET sign == IF timezone_str[1] = "+" THEN 1 ELSE -1
             parts == SplitOn(SliceFrom(timezone_str, 1), ":")
             hours == ParseInt(parts[1])
             minutes == IF Len(parts) > 1 THEN ParseInt(parts[2]) ELSE Return(0)
         IN  IF hours.ok /\ minutes.ok
             THEN sign * hours.v * 3600 + sign * minutes.v * 60
             ELSE 0
    ELSE 0

\* format_timezone_offset: "+0800"
format_timezone_offset(timezone_offset) ==
    LET total_seconds == timezone_offset
        hours == Abs(total_seconds) \div 3600
        minutes == (Abs(total_seconds) % 3600) \div 60
        sign == IF total_seconds >= 0 THEN <<"+">> ELSE <<"-">>
    IN  sign \o Pad2(hours) \o Pad2(minutes)

\* the offset embedded in tz_str, as convert_time_to_timezone reads it
OriginalOffset(tz_str) ==
    IF StartsWith(tz_str, <<"+">>) \/ StartsWith(tz_str, <<"-">>)
    THEN LET sign == IF tz_str[1] = "+" THEN 1 ELSE -1
             tz_hours == ParseInt(Slice(tz_str, 1, 3))
             tz_minutes == IF Len(tz_str) > 4 THEN ParseInt(Slice(tz_str, 3, 5)) ELSE Return(0)
         IN  IF tz_hours.ok /\ tz_minutes.ok
             THEN Return(sign * tz_hours.v * 3600 + sign * tz_minutes.v * 60)
             ELSE Raise
    ELSE Return(0)

\* a conversion that adds the target offset without subtracting the embedded one
convert_time_to_timezone_IgnoreSource(time_str, timezone_offset) ==
    LET parts == SplitOn(time_str, " ")
        dt == Strptime(parts[1])
    IN  IF dt.ok
        THEN Strftime(AddSeconds(dt.v, timezone_offset)) \o <<" ">>
                \o format_timezone_offset(timezone_offset)
        ELSE time_str

\* convert_time_to_timezone: every exception is caught and the input returned
convert_time_to_timezone(time_str, timezone_offset) ==
    LET parts == SplitOn(time_str, " ")
        parsed ==
            IF Len(parts) > 1
            THEN IF Len(parts) # 2 THEN Raise
                 ELSE LET dt == Strptime(parts[1])
                          original_offset == OriginalOffset(parts[2])
                      IN  IF dt.ok /\ original_offset.ok
                          THEN Return([dt |-> dt.v, original_offset |-> original_offset.v])
                          ELSE Raise
            ELSE LET dt == Strptime(time_str)
                 IN  IF dt.ok THEN Return([dt |-> dt.v, original_offset |-> 0]) ELSE Raise
    IN  IF parsed.ok
        THEN LET total_offset == timezone_offset - parsed.v.original_offset
                 adjusted_dt == AddSeconds(parsed.v.dt, total_offset)
             IN  Strftime(adjusted_dt) \o <<" ">> \o format_timezone_offset(timezone_offset)
        ELSE time_str

\* a relabeling that keeps the old label and appends the new one
replace_timezone_directly_Append(time_str, target_timezone) ==
    time_str \o <<" ">> \o format_timezone_offset(parse_timezone_offset(target_timezone))

\* replace_timezone_directly
replace_timezone_directly(time_str, target_timezone) ==
    LET tz_str == format_timezone_offset(parse_timezone_offset(target_timezone))
        parts == SplitOn(time_str, " ")
    IN  IF Len(parts) > 1
        THEN IF Len(parts) # 2 THEN time_str
             ELSE parts[1] \o <<" ">> \o tz_str
        ELSE time_str \o <<" ">> \o tz_str

\* an adjustment that reads the offset as hours
adjust_time_with_offset_Hours(time_str, offset_minutes, target_timezone) ==
    LET tz_str == format_timezone_offset(parse_timezone_offset(target_timezone))
        dt == Strptime(SplitOn(time_str, " ")[1])
    IN  IF dt.ok
        THEN Strftime(AddSeconds(dt.v, offset_minutes * 3600)) \o <<" ">> \o tz_str
        ELSE time_str

\* adjust_time_with_offset
adjust_time_with_offset(time_str, offset_minutes, target_timezone) ==
    LET tz_str == format_timezone_offset(parse_timezone_offset(target_timezone))
        parts == SplitOn(time_str, " ")
        dt_str == IF Len(parts) > 1
                  THEN (IF Len(parts) # 2 THEN Raise ELSE Return(parts[1]))
                  ELSE Return(time_str)
        dt == IF dt_str.ok THEN Strptime(dt_str.v) ELSE Raise
    IN  IF dt.ok
        THEN Strftime(AddSeconds(dt.v, offset_minutes * 60)) \o <<" ">> \o tz_str
        ELSE time_str

----------------------------------------------------------------------------
(* convert_utc2target.py and convert_utc2cst.py, for one start/stop attribute *)

\* the only embedded offset these two scripts touch
EligibleOffset == <<"+", "0", "0", "0", "0">>

\* a filter that lets every offset through
IsEligible_Any(tz) == TRUE

\* tz == '+0000'
IsEligible(tz) == tz = EligibleOffset

\* the result of a call: what the attribute holds afterwards and how the call
\* ended ("written": the output file was saved; "failed": the function returned
\* False and wrote nothing; "raised": an exception left the function)
Result(how, v) == [outcome |-> how, value |-> v]

\* the direct_set_timezone branch: f"{time_str} {target_tz_str}"
RelabelDirect(attr, target_tz_str) == SplitBlank(attr)[1] \o <<" ">> \o target_tz_str

\* the loop body of convert_utc2target for one attribute value
convert_utc2target(attr, target_timezone, direct) ==
    LET known == \/ StartsWith(Upper(target_timezone), <<"U", "T", "C", "+">>)
                 \/ StartsWith(Upper(target_timezone), <<"U", "T", "C", "-">>)
        n == ParseInt(SliceFrom(target_timezone, 4))
        hours_offset == IF StartsWith(Upper(target_timezone), <<"U", "T", "C", "+">>)
                        THEN n.v ELSE -n.v
        target_tz_str == (IF hours_offset >= 0 THEN <<"+">> ELSE <<"-">>)
                         \o Pad2(Abs(hours_offset)) \o <<"0", "0">>
        parts == SplitBlank(attr)
    IN  IF ~known THEN Result("failed", attr)
        ELSE IF ~n.ok THEN Result("raised", attr)
        ELSE IF attr = <<>> \/ Len(parts) # 2 THEN Result("written", attr)
        ELSE IF ~IsEligible(parts[2]) THEN Result("written", attr)
        ELSE IF direct THEN Result("written", RelabelDirect(attr, target_tz_str))
        ELSE LET dt == Strptime(parts[1])
             IN  IF ~dt.ok THEN Result("raised", attr)
                 ELSE Result("written",
                             Strftime(AddSeconds(dt.v, hours_offset * 3600))
                                \o <<" ">> \o target_tz_str)

\* the loop body of convert_utc2cst for one attribute value
convert_utc2cst(attr) ==
    LET parts == SplitBlank(attr)
    IN  IF attr = <<>> \/ Len(parts) # 2 THEN Result("written", attr)
        ELSE IF ~IsEligible(parts[2]) THEN Result("written", attr)
        ELSE LET dt == Strptime(parts[1])
             IN  IF ~dt.ok THEN Result("raised", attr)
                 ELSE Result("written",
                             Strftime(AddSeconds(dt.v, 8 * 3600))
                                \o <<" ">> \o <<"+", "0", "8", "0", "0">>)

----------------------------------------------------------------------------
(* The time normalizers applied to one attribute value *)

\* how many normalizations are applied one after the other
MaxApply == 2

\* the dates of the well-formed inputs: month ends, a leap day, a year end
Dates ==
    { <<"2", "0", "2", "5", "0", "1", "0", "1">>,
      <<"2", "0", "2", "5", "0", "2", "2", "8">>,
      <<"2", "0", "2", "4", "0", "2", "2", "8">>,
      <<"2", "0", "2", "4", "0", "2", "2", "9">>,
      <<"2", "0", "2", "5", "1", "2", "3", "1">>,
      <<"2", "0", "2", "5", "0", "8", "1", "6">> }

\* their times of day, some within a shift of midnight
Clocks ==
    { <<"0", "0", "0", "0", "0", "0">>,
      <<"0", "0", "0", "5", "0", "0">>,
      <<"1", "2", "0", "0", "0", "0">>,
      <<"1", "6", "0", "0", "0", "0">>,
      <<"2", "3", "5", "5", "0", "0">>,
      <<"2", "3", "5", "9", "5", "9">> }

\* their embedded offsets
Offsets ==
    { <<"+", "0", "0", "0", "0">>,
      <<"+", "0", "8", "0", "0">>,
      <<"-", "0", "5", "0", "0">>,
      <<"+", "0", "5", "3", "0">> }

WellFormedValues == {d \o c \o <<" ">> \o o : d \in Dates, c \in Clocks, o \in Offsets}

\* values whose datetime or offset part does not parse, or that have no or two blanks
MalformedValues ==
    { <<"2", "0", "2", "5", "0", "8", "3", "x", "1", "6", "0", "0", "0", "0", " ", "+", "0", "0", "0", "0">>,
      <<"2", "0", "2", "5", "1", "3", "0", "1", "0", "0", "0", "0", "0", "0", " ", "+", "0", "0", "0", "0">>,
      <<"2", "0", "2", "5", "0", "8", "3", "x", "1", "6", "0", "0", "0", "0", " ", "+", "0", "8", "0", "0">>,
      <<"2", "0", "2", "5", "0", "8", "1", "6", "1", "6", "0", "0", "0", "0", " ", "+", "0", "x", "0", "0">>,
      <<"2", "0", "2", "5", "0", "8", "1", "6", "1", "6", "0", "0", "0", "0", " ", "G", "M", "T">>,
      <<"2", "0", "2", "5", "0", "8", "1", "6", "1", "6", "0", "0", "0", "0">>,
      <<"2", "0", "2", "5", "0", "8", "1", "6", "1", "6", "0", "0", "0", "0", " ", " ", "+", "0", "0", "0", "0">> }

\* the configured target zones: both accepted forms, and one that is neither
Timezones ==
    { <<"U", "T", "C", "+", "8">>,
      <<"U", "T", "C", "-", "5">>,
      <<"+", "0", "5", ":", "3", "0">>,
      <<"U", "T", "C", "+", "0">>,
      <<"E", "t", "c", "/", "G", "M", "T", "-", "8">> }

MinuteOffsets == {None, Some(-10), Some(90)}

Last(l) == l[Len(l)]

CanApply == Len(applied) < MaxApply /\ outcome # "raised"

\* process_programme of down_epg_pw_trans.py, for one attribute: the policy is
\* chosen by the channel's configuration
ProcessProgramme ==
    /\ pc = "time"
    /\ CanApply
    /\ value # <<>> /\ timezone # <<>>
    /\ IF time_offset_minutes # None
       THEN /\ value' = adjust_time_with_offset(value, time_offset_minutes[1], timezone)
            /\ applied' = Append(applied, "adjust_time_with_offset")
       ELSE IF direct_set_timezone
       THEN /\ value' = replace_timezone_directly(value, timezone)
            /\ applied' = Append(applied, "replace_timezone_directly")
       ELSE /\ value' = convert_time_to_timezone(value, parse_timezone_offset(timezone))
            /\ applied' = Append(applied, "convert_time_to_timezone")
    /\ previous' = value
    /\ outcome' = "written"
    /\ UNCHANGED <<original, timezone, time_offset_minutes, direct_set_timezone>>
    /\ UNCHANGED <<resolverVars, mergeVars, restVars>>

ConvertUtc2Target ==
    /\ pc = "time"
    /\ CanApply
    /\ LET r == convert_utc2target(value, timezone, direct_set_timezone)
       IN  /\ value' = r.value
           /\ outcome' = r.outcome
    /\ applied' = Append(applied, IF direct_set_timezone THEN "convert_utc2target_direct"
                                  ELSE "convert_utc2target")
    /\ previous' = value
    /\ UNCHANGED <<original, timezone, time_offset_minutes, direct_set_timezone>>
    /\ UNCHANGED <<resolverVars, mergeVars, restVars>>

ConvertUtc2Cst ==
    /\ pc = "time"
    /\ CanApply
    /\ LET r == convert_utc2cst(value)
       IN  /\ value' = r.value
           /\ outcome' = r.outcome
    /\ applied' = Append(applied, "convert_utc2cst")
    /\ previous' = value
    /\ UNCHANGED <<original, timezone, time_offset_minutes, direct_set_timezone>>
    /\ UNCHANGED <<resolverVars, mergeVars, restVars>>

----------------------------------------------------------------------------
(* The mergers: merge_epg_files of snow_epg.py, which feeds process_epg_file, *)
(* and merge_xml_contents of unified_epg_generator.py                         *)

\* the children of one source's root; src and pos stand for the content that
\* tells one element from another
SourceElements == {Channel(<<"A">>), Programme(<<"A">>), Other}

Tagged(d, src) == [j \in 1..Len(d) |-> d[j] @@ [src |-> src, pos |-> j]]

\* the ways to cut s into n consecutive pieces
RECURSIVE Cuts(_, _)
Cuts(s, n) ==
    IF n = 0 THEN (IF s = <<>> THEN {<<>>} ELSE {})
    ELSE UNION { {<<SubSeq(s, 1, k)>> \o rest : rest \in Cuts(SubSeq(s, k + 1, Len(s)), n - 1)}
                 : k \in 0..Len(s) }

\* a source: the children of its root, and whether it can be read and parsed
SourceLists ==
    UNION { UNION { { [k \in 1..n |-> [content |-> Tagged(c[k], k), readable |-> r[k]]]
                      : r \in [1..n -> BOOLEAN] }
                    : c \in Cuts(s, n) }
            : s \in SeqsUpTo(SourceElements, MaxMerged), n \in 1..MaxFiles }

\* a merge that writes the elements of a source last to first
MergeElements_Reversed(root) ==
    LET kept == WithTag(root, "channel") \o WithTag(root, "programme")
    IN  [k \in 1..Len(kept) |-> kept[Len(kept) + 1 - k]]

\* the elements of one source that merge_epg_files writes: the children of the
\* root that are channel or programme, in their order
RECURSIVE MergeElements(_)
MergeElements(root) ==
    IF root = <<>> THEN <<>>
    ELSE IF Head(root).tag \in {"channel", "programme"}
         THEN <<Head(root)>> \o MergeElements(Tail(root))
    ELSE MergeElements(Tail(root))

\* merge_xml_contents, one content: every child of its root is appended
UnifiedAppend ==
    /\ pc = "unified"
    /\ current_file <= Len(xml_files)
    /\ xml_files[current_file].readable
    /\ person' = person \o xml_files[current_file].content
    /\ current_file' = current_file + 1
    /\ UNCHANGED <<xml_files, merged, success_count, failed_files>>
    /\ UNCHANGED <<resolverVars, timeVars, restVars>>

\* merge_xml_contents, one content that analyze_xml_content cannot parse
UnifiedSkip ==
    /\ pc = "unified"
    /\ current_file <= Len(xml_files)
    /\ ~xml_files[current_file].readable
    /\ current_file' = current_file + 1
    /\ UNCHANGED <<xml_files, merged, success_count, failed_files, person>>
    /\ UNCHANGED <<resolverVars, timeVars, restVars>>

\* person.xml is written; snow_epg starts on the same sources
UnifiedWrite ==
    /\ pc = "unified"
    /\ current_file > Len(xml_files)
    /\ pc' = "merge"
    /\ current_file' = 1
    /\ UNCHANGED <<doc, i, snow_root, snow_channel_id_counter,
                   snow_current_mapping, snow_out, ms_root,
                   ms_channel_id_counter, ms_channel_id_map,
                   ms_all_channel_mappings, ms_all_keys,
                   ms_lowercase_to_original, ms_current_mapping>>
    /\ UNCHANGED <<xml_files, merged, success_count, failed_files, person>>
    /\ UNCHANGED <<timeVars, restVars>>

\* merge_epg_files, one source that is read and parsed
MergeFile ==
    /\ pc = "merge"
    /\ current_file <= Len(xml_files)
    /\ xml_files[current_file].readable
    /\ merged' = merged \o MergeElements(xml_files[current_file].content)
    /\ success_count' = success_count + 1
    /\ current_file' = current_file + 1
    /\ UNCHANGED <<xml_files, failed_files, person>>
    /\ UNCHANGED <<resolverVars, timeVars, restVars>>

\* merge_epg_files, one source that is missing, fails to download or to parse
MergeFileFailed ==
    /\ pc = "merge"
    /\ current_file <= Len(xml_files)
    /\ ~xml_files[current_file].readable
    /\ failed_files' = Append(failed_files, current_file)
    /\ current_file' = current_file + 1
    /\ UNCHANGED <<xml_files, merged, success_count, person>>
    /\ UNCHANGED <<resolverVars, timeVars, restVars>>

\* epgziyong.xml is written and process_epg_file parses it
MergeWrite ==
    /\ pc = "merge"
    /\ current_file > Len(xml_files)
    /\ pc' = "snow"
    /\ doc' = merged
    /\ snow_root' = merged
    /\ i' = 1
    /\ UNCHANGED <<snow_channel_id_counter, snow_current_mapping, snow_out,
                   ms_root, ms_channel_id_counter, ms_channel_id_map,
                   ms_all_channel_mappings, ms_all_keys,
                   ms_lowercase_to_original, ms_current_mapping>>
    /\ UNCHANGED <<mergeVars, timeVars, restVars>>

----------------------------------------------------------------------------
(* A run of one script over its ordered sources: process_sources of         *)
(* convert_utc2target.py, process_multiple_files of                         *)
(* multi_source_epg_processor.py, merge_epg_files of snow_epg.py and        *)
(* process_epg_sources of down_epg_pw_trans.py                              *)

\* most sources of a run
MaxSources == 2

Programs == {"convert_utc2target", "multi_source_epg_processor", "snow_epg",
             "down_epg_pw_trans"}

\* what can be wrong with a source: the local file is missing, the request
\* fails before any byte is written, the transfer breaks off while the file is
\* written, the compressed data is corrupt, the bytes are not UTF-8, the XML
\* does not parse
Faults == {"ok", "missing", "connect", "stream", "gunzip", "decode", "parse"}

\* the start attribute of the programme a source holds
GoodStamp == <<"2", "0", "2", "5", "0", "8", "1", "6", "1", "6", "0", "0", "0", "0", " ", "+", "0", "0", "0", "0">>
BadStamp == <<"2", "0", "2", "5", "0", "8", "3", "x", "1", "6", "0", "0", "0", "0", " ", "+", "0", "0", "0", "0">>

\* the sources a script can be given: convert_utc2target reads local files,
\* snow_epg local files and URLs, the other two URLs
SourcesOf(prog) ==
    { s \in [url : BOOLEAN, gz : BOOLEAN, fault : Faults, stamp : {GoodStamp, BadStamp}] :
        /\ prog = "convert_utc2target" => ~s.url
        /\ prog \in {"multi_source_epg_processor", "down_epg_pw_trans"} => s.url
        /\ s.fault = "missing" => ~s.url
        /\ s.fault \in {"connect", "stream"} => s.url
        /\ s.fault = "gunzip" => s.gz
        /\ s.fault = "decode" => prog = "convert_utc2target"
        /\ s.stamp = BadStamp => (s.fault = "ok" /\ prog = "convert_utc2target") }

ScratchFile(name, owner) == [name |-> name, owner |-> owner]

\* "UTC+8", the target_timezone of every entry of the sources list
SourceTimezone == <<"U", "T", "C", "+", "8">>

\* convert_utc2target on one input file: "ok" for True, "failed" for False,
\* "raised" when an exception leaves the function
ConvertFile(s) ==
    IF s.fault \in {"missing", "gunzip", "parse"} THEN "failed"
    ELSE IF s.fault = "decode" THEN "raised"
    ELSE IF convert_utc2target(s.stamp, SourceTimezone, FALSE).outcome = "raised" THEN "raised"
    ELSE "ok"

\* process_sources, one source: nothing catches what convert_utc2target raises
ProcessSourcesStep ==
    /\ pc = "run"
    /\ program = "convert_utc2target"
    /\ source_index <= Len(sources)
    /\ attempted' = attempted \cup {source_index}
    /\ LET r == ConvertFile(sources[source_index])
       IN  /\ produced' = IF r = "ok" THEN produced \cup {source_index} ELSE produced
           /\ run_success_count' = IF r = "ok" THEN run_success_count + 1
                                   ELSE run_success_count
           /\ IF r = "raised"
              THEN /\ pc' = "exited"
                   /\ exit_status' = Some(1)
                   /\ source_index' = source_index
              ELSE /\ pc' = pc
                   /\ exit_status' = exit_status
                   /\ source_index' = source_index + 1
    /\ UNCHANGED <<program, sources, scratch>>
    /\ UNCHANGED <<resolverData, mergeVars, timeVars, laterVars, unifiedVars, progVars, testVars>>

\* process_sources returns success_count == total_count, and the script exits
ProcessSourcesExit ==
    /\ pc = "run"
    /\ program = "convert_utc2target"
    /\ source_index > Len(sources)
    /\ pc' = "exited"
    /\ exit_status' = IF run_success_count = Len(sources) THEN Some(0) ELSE Some(1)
    /\ UNCHANGED <<program, sources, source_index, attempted, produced,
                   run_success_count, scratch>>
    /\ UNCHANGED <<resolverData, mergeVars, timeVars, laterVars, unifiedVars, progVars, testVars>>

\* process_multiple_files, one URL: download_file, process_epg_file, and the
\* removal of temp_file, which a failed download skips
ProcessMultipleFilesStep ==
    /\ pc = "run"
    /\ program = "multi_source_epg_processor"
    /\ source_index <= Len(sources)
    /\ attempted' = attempted \cup {source_index}
    /\ LET s == sources[source_index]
           partial == ScratchFile(IF s.gz THEN "temp_file.gz" ELSE "temp_file", source_index)
       IN  IF s.fault = "connect"
           THEN UNCHANGED <<produced, run_success_count, scratch>>
           ELSE IF s.fault = "stream"
           THEN /\ scratch' = scratch \cup {partial}
                /\ UNCHANGED <<produced, run_success_count>>
           ELSE IF s.fault = "ok"
           THEN /\ produced' = produced \cup {source_index}
                /\ run_success_count' = run_success_count + 1
                /\ scratch' = scratch
           ELSE UNCHANGED <<produced, run_success_count, scratch>>
    /\ source_index' = source_index + 1
    /\ UNCHANGED <<pc, program, sources, exit_status>>
    /\ UNCHANGED <<resolverData, mergeVars, timeVars, laterVars, unifiedVars, progVars, testVars>>

\* shutil.rmtree(temp_dir), return success_count > 0, and the script exits
ProcessMultipleFilesExit ==
    /\ pc = "run"
    /\ program = "multi_source_epg_processor"
    /\ source_index > Len(sources)
    /\ scratch' = {}
    /\ pc' = "exited"
    /\ exit_status' = IF run_success_count > 0 THEN Some(0) ELSE Some(1)
    /\ UNCHANGED <<program, sources, source_index, attempted, produced,
                   run_success_count>>
    /\ UNCHANGED <<resolverData, mergeVars, timeVars, laterVars, unifiedVars, progVars, testVars>>

\* merge_epg_files, one entry of xml_files: a URL gets a temporary file before
\* the download; the finally clause that unlinks it belongs to the try block
\* that reads and parses, which a failed download never enters
MergeEpgFilesStep ==
    /\ pc = "run"
    /\ program = "snow_epg"
    /\ source_index <= Len(sources)
    /\ attempted' = attempted \cup {source_index}
    /\ LET s == sources[source_index]
           url_temp_file == ScratchFile("url_temp_file", source_index)
       IN  IF s.url /\ s.fault \in {"connect", "stream"}
           THEN /\ scratch' = scratch \cup {url_temp_file}
                /\ UNCHANGED <<produced, run_success_count>>
           ELSE IF s.fault = "ok"
           THEN /\ produced' = produced \cup {source_index}
                /\ run_success_count' = run_success_count + 1
                /\ scratch' = scratch
           ELSE UNCHANGED <<produced, run_success_count, scratch>>
    /\ source_index' = source_index + 1
    /\ UNCHANGED <<pc, program, sources, exit_status>>
    /\ UNCHANGED <<resolverData, mergeVars, timeVars, laterVars, unifiedVars, progVars, testVars>>

\* epgziyong.xml is written whatever was merged, process_epg_file runs on it
\* and the script ends without calling sys.exit
SnowEpgExit ==
    /\ pc = "run"
    /\ program = "snow_epg"
    /\ source_index > Len(sources)
    /\ pc' = "exited"
    /\ exit_status' = Some(0)
    /\ UNCHANGED <<program, sources, source_index, attempted, produced,
                   run_success_count, scratch>>
    /\ UNCHANGED <<resolverData, mergeVars, timeVars, laterVars, unifiedVars, progVars, testVars>>

\* download_and_parse_xml: whether temp.xml.gz is left behind; it is removed
\* after the compressed data has been read and before the XML is parsed
LeavesTempGz(s) == s.gz /\ s.fault \in {"stream", "gunzip"}

\* process_epg_sources, one source: download_and_parse_xml, then the channels
\* of the source
ProcessEpgSourcesStep ==
    /\ pc = "run"
    /\ program = "down_epg_pw_trans"
    /\ source_index <= Len(sources)
    /\ attempted' = attempted \cup {source_index}
    /\ LET s == sources[source_index]
           others == {f \in scratch : f.name # "temp.xml.gz"}
       IN  /\ scratch' = IF LeavesTempGz(s)
                         THEN others \cup {ScratchFile("temp.xml.gz", source_index)}
                         ELSE IF s.gz /\ s.fault \in {"ok", "parse"} THEN others
                         ELSE scratch
           /\ produced' = IF s.fault = "ok" THEN produced \cup {source_index} ELSE produced
           /\ run_success_count' = IF s.fault = "ok" THEN run_success_count + 1
                                   ELSE run_success_count
    /\ source_index' = source_index + 1
    /\ UNCHANGED <<pc, program, sources, exit_status>>
    /\ UNCHANGED <<resolverData, mergeVars, timeVars, laterVars, unifiedVars, progVars, testVars>>

\* epgpw.xml is written and main returns
ProcessEpgSourcesExit ==
    /\ pc = "run"
    /\ program = "down_epg_pw_trans"
    /\ source_index > Len(sources)
    /\ pc' = "exited"
    /\ exit_status' = Some(0)
    /\ UNCHANGED <<program, sources, source_index, attempted, produced,
                   run_success_count, scratch>>
    /\ UNCHANGED <<resolverData, mergeVars, timeVars, laterVars, unifiedVars, progVars, testVars>>

----------------------------------------------------------------------------
(* main of unified_epg_generator.py: every script runs in one shared         *)
(* temporary directory and the first .xml file listed there is collected     *)

\* most scripts discovered
MaxScripts == 3

\* a get_*_epg.py script: whether it ends with return code 0 in time, and
\* whether it has written its XML file by then
Scripts == [returns : BOOLEAN, writes : BOOLEAN]

\* the content of the file script k writes: a channel and a programme of it
ContentOf(k) == Tagged(<<Channel(<<"A">>), Programme(<<"A">>)>>, k)

\* merge_xml_contents: the children of every collected root, in order
RECURSIVE MergeXmlContents(_)
MergeXmlContents(contents) ==
    IF contents = <<>> THEN <<>>
    ELSE ContentOf(Head(contents)) \o MergeXmlContents(Tail(contents))

\* the loop body of main: the script runs in temp_dir; after a successful
\* run the first entry of os.listdir(temp_dir) that ends in .xml is read,
\* and os.listdir lists the files of all scripts so far in arbitrary order
RunScript ==
    /\ pc = "unified_main"
    /\ script_index <= Len(scripts)
    /\ LET script == scripts[script_index]
           xml_files_now == IF script.writes THEN temp_dir \cup {script_index} ELSE temp_dir
       IN  /\ temp_dir' = xml_files_now
           /\ IF script.returns /\ xml_files_now # {}
              THEN \E first \in xml_files_now :
                      /\ all_xml_contents' = Append(all_xml_contents, first)
                      /\ all_script_names' = Append(all_script_names, script_index)
              ELSE UNCHANGED <<all_xml_contents, all_script_names>>
    /\ script_index' = script_index + 1
    /\ UNCHANGED <<pc, scripts>>
    /\ UNCHANGED <<resolverData, mergeVars, timeVars, laterVars, runVars, progVars, testVars>>

\* nothing was collected: main returns without writing person.xml
UnifiedMainNothing ==
    /\ pc = "unified_main"
    /\ script_index > Len(scripts)
    /\ all_xml_contents = <<>>
    /\ pc' = "unified_done"
    /\ UNCHANGED <<resolverData, mergeVars, timeVars, laterVars, runVars, unifiedVars, progVars, testVars>>

\* the collected contents are merged and person.xml is written
UnifiedMainWrite ==
    /\ pc = "unified_main"
    /\ script_index > Len(scripts)
    /\ all_xml_contents # <<>>
    /\ person' = MergeXmlContents(all_xml_contents)
    /\ pc' = "unified_done"
    /\ UNCHANGED <<xml_files, current_file, merged, success_count, failed_files>>
    /\ UNCHANGED <<resolverData, timeVars, laterVars, runVars, unifiedVars, progVars, testVars>>

----------------------------------------------------------------------------
(* process_programme of down_epg_pw_trans.py: the title check, the time      *)
(* policy of the channel applied to start and to stop, the channel attribute *)

\* a configured flag: a bool, or a string such as "true"
BoolFlag(b) == [str |-> FALSE, bool |-> b, text |-> <<>>]
StrFlag(t) == [str |-> TRUE, bool |-> FALSE, text |-> t]

\* direct_set_timezone after the isinstance(direct_set_timezone, str) step
FlagValue(flag) ==
    IF flag.str THEN Lower(flag.text) = <<"t", "r", "u", "e">> ELSE flag.bool

\* str.strip of a string of blanks and letters
RECURSIVE Strip(_)
Strip(t) ==
    IF t = <<>> THEN <<>>
    ELSE IF Head(t) = " " THEN Strip(Tail(t))
    ELSE IF t[Len(t)] = " " THEN Strip(SubSeq(t, 1, Len(t) - 1))
    ELSE t

\* the if / elif / else that selects the function for an attribute
TimePolicy(info) ==
    IF info.time_offset_minutes # None THEN "adjust_time_with_offset"
    ELSE IF FlagValue(info.direct_set_timezone) THEN "replace_timezone_directly"
    ELSE "convert_time_to_timezone"

\* the value the selected function returns
ApplyPolicy(policy, time_str, tz, info) ==
    CASE policy = "adjust_time_with_offset" ->
            adjust_time_with_offset(time_str, info.time_offset_minutes[1], tz)
      [] policy = "replace_timezone_directly" -> replace_timezone_directly(time_str, tz)
      [] policy = "convert_time_to_timezone" ->
            convert_time_to_timezone(time_str, parse_timezone_offset(tz))

\* a process_programme that normalizes the start and leaves the stop alone
process_programme_StartOnly(elem, channel_id, info, config) ==
    IF elem.title = <<>> \/ Strip(elem.title) = <<>>
    THEN [elem |-> elem, start |-> "none", stop |-> "none"]
    ELSE LET tz == config.timezone
             do_start == elem.start # <<>> /\ tz # <<>>
             do_stop == elem.stop # <<>> /\ tz # <<>>
             policy == TimePolicy(info)
         IN  [elem |-> [elem EXCEPT
                          !.start = IF do_start THEN ApplyPolicy(policy, elem.start, tz, info)
                                    ELSE elem.start,
                          !.channel = channel_id],
              start |-> IF do_start THEN policy ELSE "none",
              stop |-> IF do_stop THEN policy ELSE "none"]

\* process_programme: what it does to the programme element, and the
\* function it applied to each attribute ("none" when it applied none)
process_programme(elem, channel_id, info, config) ==
    IF elem.title = <<>> \/ Strip(elem.title) = <<>>
    THEN [elem |-> elem, start |-> "none", stop |-> "none"]
    ELSE LET tz == config.timezone
             do_start == elem.start # <<>> /\ tz # <<>>
             do_stop == elem.stop # <<>> /\ tz # <<>>
             policy == TimePolicy(info)
         IN  [elem |-> [elem EXCEPT
                          !.start = IF do_start THEN ApplyPolicy(policy, elem.start, tz, info)
                                    ELSE elem.start,
                          !.stop = IF do_stop THEN ApplyPolicy(policy, elem.stop, tz, info)
                                   ELSE elem.stop,
                          !.channel = channel_id],
              start |-> IF do_start THEN policy ELSE "none",
              stop |-> IF do_stop THEN policy ELSE "none"]

\* the configured id of the new channel
NewChannelId == <<"B">>

\* process_epg_sources calls process_programme on the copy of a programme
ProcessProgrammeElement ==
    /\ pc = "programme"
    /\ LET r == process_programme(programme, NewChannelId, channel_info, source_config)
       IN  /\ programme' = r.elem
           /\ start_policy' = r.start
           /\ stop_policy' = r.stop
    /\ pc' = "programme_done"
    /\ UNCHANGED <<original_programme, source_config, channel_info>>
    /\ UNCHANGED <<resolverData, mergeVars, timeVars, laterVars, runVars, unifiedVars, testVars>>

\* the programme is appended to the new tree
AppendProgramme ==
    /\ pc = "programme_done"
    /\ pc' = "programme_appended"
    /\ UNCHANGED <<resolverData, mergeVars, timeVars, laterVars, runVars, unifiedVars, progVars, testVars>>

\* the attribute value is one the loop of convert_utc2target rewrites
Converts(attr) ==
    attr # <<>> /\ Len(SplitBlank(attr)) = 2 /\ IsEligible(SplitBlank(attr)[2])

\* convert_utc2target over the start and the stop of one programme: the
\* attributes are rewritten and the document saved, unless a call fails or
\* raises, which leaves the document of the source as it was
ConvertUtc2TargetProgramme ==
    /\ pc = "programme"
    /\ \E direct \in BOOLEAN :
          LET target == source_config.timezone
              start == convert_utc2target(programme.start, target, direct)
              stop == convert_utc2target(programme.stop, target, direct)
              name == IF direct THEN "convert_utc2target_direct" ELSE "convert_utc2target"
          IN  IF start.outcome = "written" /\ stop.outcome = "written"
              THEN /\ programme' = [programme EXCEPT !.start = start.value,
                                                      !.stop = stop.value]
                   /\ start_policy' = IF Converts(programme.start) THEN name ELSE "none"
                   /\ stop_policy' = IF Converts(programme.stop) THEN name ELSE "none"
                   /\ pc' = "converted"
              ELSE /\ UNCHANGED <<programme, start_policy, stop_policy>>
                   /\ pc' = "convert_failed"
    /\ UNCHANGED <<original_programme, source_config, channel_info>>
    /\ UNCHANGED <<resolverData, mergeVars, timeVars, laterVars, runVars, unifiedVars, testVars>>

\* the programmes of the sources: titles, start and stop attributes
ProgrammeTitles == {<<>>, <<" ">>, <<"t">>}
ProgrammeStarts ==
    { <<>>,
      <<"2", "0", "2", "5", "0", "1", "0", "1", "1", "2", "0", "0", "0", "0", " ", "+", "0", "0", "0", "0">>,
      <<"2", "0", "2", "5", "1", "2", "3", "1", "2", "3", "5", "5", "0", "0", " ", "-", "0", "5", "0", "0">>,
      BadStamp }
ProgrammeStops ==
    { <<>>,
      <<"2", "0", "2", "5", "0", "1", "0", "1", "1", "3", "0", "0", "0", "0", " ", "+", "0", "0", "0", "0">>,
      <<"2", "0", "2", "6", "0", "1", "0", "1", "0", "0", "3", "0", "0", "0", " ", "-", "0", "5", "0", "0">> }

Programmes ==
    [title : ProgrammeTitles, start : ProgrammeStarts, stop : ProgrammeStops,
     channel : {<<"A">>}]

\* the configurations: the source's timezone, if any, and the channel's
\* time_offset_minutes and direct_set_timezone
SourceConfigs == [timezone : {<<>>} \cup Timezones]
ChannelInfos ==
    [time_offset_minutes : {None, Some(0), Some(-10), Some(90)},
     direct_set_timezone : {BoolFlag(FALSE), BoolFlag(TRUE),
                            StrFlag(<<"T", "r", "u", "e">>),
                            StrFlag(<<"f", "a", "l", "s", "e">>)}]

----------------------------------------------------------------------------
(* convert_utc2target.py: the pre-pass that escapes the unescaped ampersands *)

\* the alternatives of the negative lookahead (?!amp;|lt;|gt;|quot;|apos;)
Entities ==
    { <<"a", "m", "p", ";">>, <<"l", "t", ";">>, <<"g", "t", ";">>,
      <<"q", "u", "o", "t", ";">>, <<"a", "p", "o", "s", ";">> }

\* text has the string e right after position k
FollowedBy(text, k, e) ==
    k + Len(e) <= Len(text) /\ SubSeq(text, k + 1, k + Len(e)) = e

\* the pattern &(?!amp;|lt;|gt;|quot;|apos;) matches at position k of text
Unescaped(text, k) ==
    text[k] = "&" /\ \A e \in Entities : ~FollowedBy(text, k, e)

\* xml_content.split('\n')
SplitLines(text) == SplitOn(text, "\n")

\* re.finditer over one line: the positions of the matches, in order
RECURSIVE FindIter(_, _)
FindIter(line, k) ==
    IF k > Len(line) THEN <<>>
    ELSE IF Unescaped(line, k) THEN <<k>> \o FindIter(line, k + 1)
    ELSE FindIter(line, k + 1)

\* a substitution that replaces the first match only
RECURSIVE ReSub_FirstOnly(_, _)
ReSub_FirstOnly(text, k) ==
    IF k > Len(text) THEN <<>>
    ELSE IF Unescaped(text, k)
         THEN <<"&", "a", "m", "p", ";">> \o SubSeq(text, k + 1, Len(text))
    ELSE <<text[k]>> \o ReSub_FirstOnly(text, k + 1)

\* re.sub(pattern, '&amp;', text), from position k on
RECURSIVE ReSub(_, _)
ReSub(text, k) ==
    IF k > Len(text) THEN <<>>
    ELSE IF Unescaped(text, k)
         THEN <<"&", "a", "m", "p", ";">> \o ReSub(text, k + 1)
    ELSE <<text[k]>> \o ReSub(text, k + 1)

\* one line is scanned and each of its matches recorded with line and column
ScanLine ==
    /\ pc = "repair_scan"
    /\ line_index <= Len(SplitLines(file_content))
    /\ LET line == SplitLines(file_content)[line_index]
           matches == FindIter(line, 1)
       IN  repair_info' = repair_info \o
               [m \in 1..Len(matches) |-> [line |-> line_index, column |-> matches[m]]]
    /\ line_index' = line_index + 1
    /\ UNCHANGED <<pc, file_content, xml_content>>
    /\ UNCHANGED <<resolverData, mergeVars, timeVars, rerunVars, emitVars, reportVars,
                   runVars, unifiedVars, progVars, testVars>>

\* after the last line the whole text is repaired in one substitution
RepairContent ==
    /\ pc = "repair_scan"
    /\ line_index > Len(SplitLines(file_content))
    /\ xml_content' = ReSub(file_content, 1)
    /\ pc' = "repaired"
    /\ UNCHANGED <<file_content, line_index, repair_info>>
    /\ UNCHANGED <<resolverData, mergeVars, timeVars, rerunVars, emitVars, reportVars,
                   runVars, unifiedVars, progVars, testVars>>

\* most pieces a file content is put together from
MaxPieces == 4

\* the pieces: a bare ampersand, the five entities, a broken entity, a
\* letter, a line end
Pieces ==
    { <<"&">>, <<"&", "a", "m", "p", ";">>, <<"&", "l", "t", ";">>, <<"&", "g", "t", ";">>,
      <<"&", "q", "u", "o", "t", ";">>, <<"&", "a", "p", "o", "s", ";">>,
      <<"&", "a", "m">>, <<"x">>, <<"\n">> }

RECURSIVE Concat(_)
Concat(l) == IF l = <<>> THEN <<>> ELSE Head(l) \o Concat(Tail(l))

FileContents == {Concat(l) : l \in SeqsUpTo(Pieces, MaxPieces)}

----------------------------------------------------------------------------
(* process_epg_sources of down_epg_pw_trans.py: which entry emits a new channel *)

\* most sources, and most entries of a source's channel_info
MaxEpgSources == 2
MaxEntries == 2

\* the entries of channel_info: the original channel id and the new one
Entries ==
    { [channel_id |-> <<"A">>, new_channel_id |-> <<"B">>],
      [channel_id |-> <<"C">>, new_channel_id |-> <<"B">>],
      [channel_id |-> <<"C">>, new_channel_id |-> <<"D">>] }

\* a source: whether download_and_parse_xml returns a root, the ids of the
\* channel elements of that root, and its channel_info
EpgSources ==
    { src \in [fetched : BOOLEAN, channels : {{}, {<<"C">>}, {<<"A">>, <<"C">>}},
               channel_info : SeqsUpTo(Entries, MaxEntries) \ {<<>>}] :
        ~src.fetched => src.channels = {} }

\* a set that takes the new channel id before the original channel is looked up
AddedAfter_Always(added, new_channel_id, found) == added \cup {new_channel_id}

\* added_channels after an entry: the new id is added once its channel was
\* found and copied
AddedAfter(added, new_channel_id, found) ==
    IF found THEN added \cup {new_channel_id} ELSE added

CurrentSource == epg_sources[epg_index]
CurrentEntry == CurrentSource.channel_info[entry_index]

\* download_and_parse_xml returned None: the source is skipped
SourceNotFetched ==
    /\ pc = "emit"
    /\ epg_index <= Len(epg_sources)
    /\ ~CurrentSource.fetched
    /\ epg_index' = epg_index + 1
    /\ entry_index' = 1
    /\ UNCHANGED <<pc, epg_sources, added_channels, new_root>>
    /\ UNCHANGED <<resolverData, mergeVars, timeVars, rerunVars, repairVars, reportVars,
                   runVars, unifiedVars, progVars, testVars>>

\* the new channel id was already added: the entry is skipped
EntryAlreadyAdded ==
    /\ pc = "emit"
    /\ epg_index <= Len(epg_sources)
    /\ CurrentSource.fetched
    /\ entry_index <= Len(CurrentSource.channel_info)
    /\ CurrentEntry.new_channel_id \in added_channels
    /\ entry_index' = entry_index + 1
    /\ UNCHANGED <<pc, epg_sources, epg_index, added_channels, new_root>>
    /\ UNCHANGED <<resolverData, mergeVars, timeVars, rerunVars, repairVars, reportVars,
                   runVars, unifiedVars, progVars, testVars>>

\* the source has no channel of the original id: the entry is skipped
EntryChannelMissing ==
    /\ pc = "emit"
    /\ epg_index <= Len(epg_sources)
    /\ CurrentSource.fetched
    /\ entry_index <= Len(CurrentSource.channel_info)
    /\ CurrentEntry.new_channel_id \notin added_channels
    /\ CurrentEntry.channel_id \notin CurrentSource.channels
    /\ added_channels' = AddedAfter(added_channels, CurrentEntry.new_channel_id, FALSE)
    /\ entry_index' = entry_index + 1
    /\ UNCHANGED <<pc, epg_sources, epg_index, new_root>>
    /\ UNCHANGED <<resolverData, mergeVars, timeVars, rerunVars, repairVars, reportVars,
                   runVars, unifiedVars, progVars, testVars>>

\* the channel is copied under the new id, with its programmes
EntryEmitted ==
    /\ pc = "emit"
    /\ epg_index <= Len(epg_sources)
    /\ CurrentSource.fetched
    /\ entry_index <= Len(CurrentSource.channel_info)
    /\ CurrentEntry.new_channel_id \notin added_channels
    /\ CurrentEntry.channel_id \in CurrentSource.channels
    /\ new_root' = Append(new_root, [tag |-> "channel", id |-> CurrentEntry.new_channel_id,
                                     source |-> epg_index, entry |-> entry_index])
    /\ added_channels' = AddedAfter(added_channels, CurrentEntry.new_channel_id, TRUE)
    /\ entry_index' = entry_index + 1
    /\ UNCHANGED <<pc, epg_sources, epg_index>>
    /\ UNCHANGED <<resolverData, mergeVars, timeVars, rerunVars, repairVars, reportVars,
                   runVars, unifiedVars, progVars, testVars>>

\* the entries of the source are exhausted
EntriesDone ==
    /\ pc = "emit"
    /\ epg_index <= Len(epg_sources)
    /\ CurrentSource.fetched
    /\ entry_index > Len(CurrentSource.channel_info)
    /\ epg_index' = epg_index + 1
    /\ entry_index' = 1
    /\ UNCHANGED <<pc, epg_sources, added_channels, new_root>>
    /\ UNCHANGED <<resolverData, mergeVars, timeVars, rerunVars, repairVars, reportVars,
                   runVars, unifiedVars, progVars, testVars>>

\* after the last source epgpw.xml is written
WriteEpgpw ==
    /\ pc = "emit"
    /\ epg_index > Len(epg_sources)
    /\ pc' = "emitted"
    /\ UNCHANGED emitVars
    /\ UNCHANGED <<resolverData, mergeVars, timeVars, rerunVars, repairVars, reportVars,
                   runVars, unifiedVars, progVars, testVars>>

----------------------------------------------------------------------------
(* snow_epg.process_epg_file: the statistics collected in the pass, the      *)
(* regrouped document, and the four artifacts written one after the other    *)

\* most elements of a document handed to the reporting run
MaxReportLen == 3

\* a programme with its start and stop attributes
TimedProgramme(ch, times) ==
    [tag |-> "programme", channel |-> ch, start |-> times[1], stop |-> times[2]]

\* start and stop of the programmes: an hour in the afternoon, ninety minutes
\* across the end of a month, and a start that is no date
ReportTimes ==
    { << <<"2", "0", "2", "5", "0", "8", "3", "0", "1", "6", "0", "0", "0", "0", " ", "+", "0", "0", "0", "0">>,
         <<"2", "0", "2", "5", "0", "8", "3", "0", "1", "7", "0", "0", "0", "0", " ", "+", "0", "0", "0", "0">> >>,
      << <<"2", "0", "2", "5", "0", "8", "3", "1", "2", "3", "0", "0", "0", "0", " ", "+", "0", "0", "0", "0">>,
         <<"2", "0", "2", "5", "0", "9", "0", "1", "0", "0", "3", "0", "0", "0", " ", "+", "0", "0", "0", "0">> >>,
      << BadStamp,
         <<"2", "0", "2", "5", "0", "8", "3", "0", "1", "7", "0", "0", "0", "0", " ", "+", "0", "0", "0", "0">> >> }

ReportIds == { <<"A">>, <<"a">>, <<"A", " ", "(", "2", ")">> }

ReportElements ==
    {Channel(x) : x \in ReportIds}
        \cup {TimedProgramme(x, t) : x \in {<<"A">>, <<"a">>}, t \in ReportTimes}
        \cup {Other}

ReportDocuments == SeqsUpTo(ReportElements, MaxReportLen)

\* the artifacts, in the order they are written
Artifacts == <<"xml", "gz", "readme", "json">>

\* the entry a channel element puts into channel_info
NewChannelInfo == [program_count |-> 0, min_start |-> None, max_end |-> None]

\* a datetime as a number of seconds, for the comparisons
Seconds(dt) == dt.days * 86400 + dt.secs

\* channel_info[new_id] after a programme from start_dt to end_dt
CountProgramme(info, start_dt, end_dt) ==
    [program_count |-> info.program_count + 1,
     min_start |-> IF info.min_start = None \/ Seconds(start_dt) < Seconds(info.min_start[1])
                   THEN Some(start_dt) ELSE info.min_start,
     max_end |-> IF info.max_end = None \/ Seconds(end_dt) > Seconds(info.max_end[1])
                 THEN Some(end_dt) ELSE info.max_end]

\* a list of the new ids that leaves out an id it already holds
AppendChannelId_Unique(order, new_id) ==
    IF InList(new_id, order) THEN order ELSE Append(order, new_id)

\* channel_ids_in_order.append(new_id)
AppendChannelId(order, new_id) == Append(order, new_id)

ReportChannel ==
    /\ pc = "report"
    /\ report_i <= Len(report_root)
    /\ report_root[report_i].tag = "channel"
    /\ LET old_id == report_root[report_i].id
           lower_id == Lower(old_id)
           count == Get(report_channel_id_counter, lower_id, 0) + 1
           new_id == NewId(old_id, count)
       IN  /\ report_channel_id_counter' = Put(report_channel_id_counter, lower_id, count)
           /\ report_root' = [report_root EXCEPT ![report_i].id = new_id]
           /\ report_current_mapping' = Put(report_current_mapping, old_id, new_id)
           /\ report_channel_info' = Put(report_channel_info, new_id, NewChannelInfo)
           /\ report_channel_ids_in_order' =
                  AppendChannelId(report_channel_ids_in_order, new_id)
    /\ report_i' = report_i + 1
    /\ UNCHANGED pc
    /\ UNCHANGED <<report_doc, report_out, report_fault, report_written,
                   readme_rows, json_data, json_file>>
    /\ UNCHANGED <<resolverData, mergeVars, timeVars, rerunVars, repairVars, emitVars,
                   runVars, unifiedVars, progVars, testVars>>

\* a programme is rebound when its reference is a key of current_mapping, and
\* counted when, besides, the first 14 characters of start and stop are dates
ReportProgramme ==
    /\ pc = "report"
    /\ report_i <= Len(report_root)
    /\ report_root[report_i].tag = "programme"
    /\ LET elem == report_root[report_i]
           channel_ref == elem.channel
           resolved == channel_ref \in DOMAIN report_current_mapping
           new_id == SnowLookup(report_current_mapping, channel_ref)
           start_dt == Strptime(Slice(elem.start, 0, 14))
           end_dt == Strptime(Slice(elem.stop, 0, 14))
       IN  /\ report_root' = [report_root EXCEPT ![report_i].channel = new_id]
           /\ report_channel_info' =
                  IF resolved /\ start_dt.ok /\ end_dt.ok
                     /\ new_id \in DOMAIN report_channel_info
                  THEN Put(report_channel_info, new_id,
                           CountProgramme(report_channel_info[new_id], start_dt.v, end_dt.v))
                  ELSE report_channel_info
    /\ report_i' = report_i + 1
    /\ UNCHANGED pc
    /\ UNCHANGED <<report_doc, report_channel_id_counter,
                   report_current_mapping, report_channel_ids_in_order,
                   report_out, report_fault, report_written, readme_rows,
                   json_data, json_file>>
    /\ UNCHANGED <<resolverData, mergeVars, timeVars, rerunVars, repairVars, emitVars,
                   runVars, unifiedVars, progVars, testVars>>

ReportOther ==
    /\ pc = "report"
    /\ report_i <= Len(report_root)
    /\ report_root[report_i].tag \notin {"channel", "programme"}
    /\ report_i' = report_i + 1
    /\ UNCHANGED pc
    /\ UNCHANGED <<report_doc, report_root, report_channel_id_counter,
                   report_current_mapping, report_channel_info,
                   report_channel_ids_in_order, report_out, report_fault,
                   report_written, readme_rows, json_data, json_file>>
    /\ UNCHANGED <<resolverData, mergeVars, timeVars, rerunVars, repairVars, emitVars,
                   runVars, unifiedVars, progVars, testVars>>

\* the children are regrouped
ReportRegroup ==
    /\ pc = "report"
    /\ report_i > Len(report_root)
    /\ report_out' = Regroup(report_root)
    /\ pc' = "write_xml"
    /\ UNCHANGED <<report_doc, report_i, report_root,
                   report_channel_id_counter, report_current_mapping,
                   report_channel_info, report_channel_ids_in_order,
                   report_fault, report_written, readme_rows, json_data,
                   json_file>>
    /\ UNCHANGED <<resolverData, mergeVars, timeVars, rerunVars, repairVars, emitVars,
                   runVars, unifiedVars, progVars, testVars>>

\* writing an artifact either succeeds or raises; nothing catches the
\* exception, so it leaves process_epg_file
WriteXml ==
    /\ pc = "write_xml"
    /\ IF report_fault = "xml"
       THEN pc' = "report_raised" /\ UNCHANGED report_written
       ELSE pc' = "write_gz" /\ report_written' = report_written \cup {"xml"}
    /\ UNCHANGED <<report_doc, report_i, report_root,
                   report_channel_id_counter, report_current_mapping,
                   report_channel_info, report_channel_ids_in_order,
                   report_out, report_fault, readme_rows, json_data, json_file>>
    /\ UNCHANGED <<resolverData, mergeVars, timeVars, rerunVars, repairVars, emitVars,
                   runVars, unifiedVars, progVars, testVars>>

WriteGz ==
    /\ pc = "write_gz"
    /\ IF report_fault = "gz"
       THEN pc' = "report_raised" /\ UNCHANGED report_written
       ELSE pc' = "write_readme" /\ report_written' = report_written \cup {"gz"}
    /\ UNCHANGED <<report_doc, report_i, report_root,
                   report_channel_id_counter, report_current_mapping,
                   report_channel_info, report_channel_ids_in_order,
                   report_out, report_fault, readme_rows, json_data, json_file>>
    /\ UNCHANGED <<resolverData, mergeVars, timeVars, rerunVars, repairVars, emitVars,
                   runVars, unifiedVars, progVars, testVars>>

\* dt.strftime('%Y-%m-%d %H:%M:%S')
StrftimeReport(dt) ==
    LET c == CivilFromDays(dt.days)
    IN  Pad4(c.year) \o <<"-">> \o Pad2(c.month) \o <<"-">> \o Pad2(c.day) \o <<" ">>
        \o Pad2(dt.secs \div 3600) \o <<":">> \o Pad2((dt.secs % 3600) \div 60)
        \o <<":">> \o Pad2(dt.secs % 60)

\* what the loop over channel_ids_in_order reads for one id
RowInfo(channel_id) == Get(report_channel_info, channel_id, NewChannelInfo)

HasRange(info) == info.min_start # None /\ info.max_end # None

\* the table row of a channel: id, count, and the range or None for "no programmes"
ReadmeRow(channel_id) ==
    LET info == RowInfo(channel_id)
    IN  [channel_id |-> channel_id,
         count |-> info.program_count,
         date_range |-> IF HasRange(info)
                        THEN Some(<<StrftimeReport(info.min_start[1]),
                                    StrftimeReport(info.max_end[1])>>)
                        ELSE None]

\* the JSON object of a channel
JsonRow(channel_id) ==
    LET info == RowInfo(channel_id)
    IN  [channel_id |-> channel_id,
         programme_count |-> info.program_count,
         date_range |-> IF HasRange(info)
                        THEN [start |-> Some(StrftimeReport(info.min_start[1])),
                              end |-> Some(StrftimeReport(info.max_end[1]))]
                        ELSE [start |-> None, end |-> None],
         has_programmes |-> info.program_count > 0]

\* README.md is opened and a row written per id of channel_ids_in_order, the
\* JSON list being built in the same loop
WriteReadme ==
    /\ pc = "write_readme"
    /\ IF report_fault = "readme"
       THEN /\ pc' = "report_raised"
            /\ UNCHANGED <<report_written, readme_rows, json_data>>
       ELSE /\ pc' = "write_json"
            /\ report_written' = report_written \cup {"readme"}
            /\ readme_rows' = [k \in 1..Len(report_channel_ids_in_order) |->
                                  ReadmeRow(report_channel_ids_in_order[k])]
            /\ json_data' = [k \in 1..Len(report_channel_ids_in_order) |->
                                JsonRow(report_channel_ids_in_order[k])]
    /\ UNCHANGED <<report_doc, report_i, report_root,
                   report_channel_id_counter, report_current_mapping,
                   report_channel_info, report_channel_ids_in_order,
                   report_out, report_fault, json_file>>
    /\ UNCHANGED <<resolverData, mergeVars, timeVars, rerunVars, repairVars, emitVars,
                   runVars, unifiedVars, progVars, testVars>>

WriteJson ==
    /\ pc = "write_json"
    /\ IF report_fault = "json"
       THEN pc' = "report_raised" /\ UNCHANGED <<report_written, json_file>>
       ELSE /\ pc' = "report_done"
            /\ report_written' = report_written \cup {"json"}
            /\ json_file' = Some(json_data)
    /\ UNCHANGED <<report_doc, report_i, report_root,
                   report_channel_id_counter, report_current_mapping,
                   report_channel_info, report_channel_ids_in_order,
                   report_out, report_fault, readme_rows, json_data>>
    /\ UNCHANGED <<resolverData, mergeVars, timeVars, rerunVars, repairVars, emitVars,
                   runVars, unifiedVars, progVars, testVars>>

----------------------------------------------------------------------------
(* The resolvers, each run over the same input document *)

ResolverStart(d) ==
    /\ doc = d
    /\ pc = "snow"
    /\ i = 1
    /\ snow_root = d
    /\ snow_channel_id_counter = EmptyDict
    /\ snow_current_mapping = EmptyDict
    /\ snow_out = <<>>
    /\ ms_root = d
    /\ ms_channel_id_counter = EmptyDict
    /\ ms_channel_id_map = EmptyDict
    /\ ms_all_channel_mappings = EmptyDict
    /\ ms_all_keys = <<>>
    /\ ms_lowercase_to_original = EmptyDict
    /\ ms_current_mapping = EmptyDict

MergeIdle ==
    /\ xml_files = <<>>
    /\ current_file = 1
    /\ merged = <<>>
    /\ success_count = 0
    /\ failed_files = <<>>
    /\ person = <<>>

TimeIdle ==
    /\ value = <<>>
    /\ original = <<>>
    /\ previous = <<>>
    /\ timezone = <<>>
    /\ time_offset_minutes = None
    /\ direct_set_timezone = FALSE
    /\ applied = <<>>
    /\ outcome = "none"

RunIdle ==
    /\ program = "none"
    /\ sources = <<>>
    /\ source_index = 1
    /\ attempted = {}
    /\ produced = {}
    /\ run_success_count = 0
    /\ scratch = {}
    /\ exit_status = None

UnifiedIdle ==
    /\ scripts = <<>>
    /\ script_index = 1
    /\ temp_dir = {}
    /\ all_xml_contents = <<>>
    /\ all_script_names = <<>>

ProgrammeIdle ==
    /\ original_programme = <<>>
    /\ programme = <<>>
    /\ source_config = <<>>
    /\ channel_info = <<>>
    /\ start_policy = "none"
    /\ stop_policy = "none"

TestIdle ==
    /\ test_doc = <<>>
    /\ test_i = 1
    /\ test_root = <<>>
    /\ test_channel_id_counter = EmptyDict
    /\ test_current_mapping = EmptyDict

RerunIdle == rerun = "no"

RepairIdle ==
    /\ file_content = <<>>
    /\ xml_content = <<>>
    /\ line_index = 1
    /\ repair_info = <<>>

EmitIdle ==
    /\ epg_sources = <<>>
    /\ epg_index = 1
    /\ entry_index = 1
    /\ added_channels = {}
    /\ new_root = <<>>

ReportIdle ==
    /\ report_doc = <<>>
    /\ report_i = 1
    /\ report_root = <<>>
    /\ report_channel_id_counter = EmptyDict
    /\ report_current_mapping = EmptyDict
    /\ report_channel_info = EmptyDict
    /\ report_channel_ids_in_order = <<>>
    /\ report_out = <<>>
    /\ report_fault = "none"
    /\ report_written = {}
    /\ readme_rows = <<>>
    /\ json_data = <<>>
    /\ json_file = None

LaterIdle == RerunIdle /\ RepairIdle /\ EmitIdle /\ ReportIdle

Init ==
    /\ \E d \in Documents : ResolverStart(d)
    /\ MergeIdle
    /\ TimeIdle
    /\ RunIdle /\ UnifiedIdle /\ ProgrammeIdle /\ TestIdle /\ LaterIdle

Next ==
    \/ SnowChannel
    \/ SnowProgramme
    \/ SnowOther
    \/ SnowRegroup
    \/ MsPhase1Channel
    \/ MsPhase1Done
    \/ MsPhase2Channel
    \/ MsPhase2Programme
    \/ MsPhase2Other
    \/ MsWrite

Spec == Init /\ [][Next]_vars

ResolverIdle ==
    /\ doc = <<>>
    /\ i = 1
    /\ snow_root = <<>>
    /\ snow_channel_id_counter = EmptyDict
    /\ snow_current_mapping = EmptyDict
    /\ snow_out = <<>>
    /\ ms_root = <<>>
    /\ ms_channel_id_counter = EmptyDict
    /\ ms_channel_id_map = EmptyDict
    /\ ms_all_channel_mappings = EmptyDict
    /\ ms_all_keys = <<>>
    /\ ms_lowercase_to_original = EmptyDict
    /\ ms_current_mapping = EmptyDict

TimeInit ==
    /\ pc = "time"
    /\ ResolverIdle
    /\ MergeIdle
    /\ original \in WellFormedValues \cup MalformedValues
    /\ value = original
    /\ previous = original
    /\ timezone \in Timezones
    /\ time_offset_minutes \in MinuteOffsets
    /\ direct_set_timezone \in BOOLEAN
    /\ applied = <<>>
    /\ outcome = "none"
    /\ RunIdle /\ UnifiedIdle /\ ProgrammeIdle /\ TestIdle /\ LaterIdle

TimeNext ==
    \/ ProcessProgramme
    \/ ConvertUtc2Target
    \/ ConvertUtc2Cst

\* the time normalizers applied to one start/stop value
TimeSpec == TimeInit /\ [][TimeNext]_vars

MergeInit ==
    /\ pc = "unified"
    /\ ResolverIdle
    /\ TimeIdle
    /\ xml_files \in SourceLists
    /\ current_file = 1
    /\ merged = <<>>
    /\ success_count = 0
    /\ failed_files = <<>>
    /\ person = <<>>
    /\ RunIdle /\ UnifiedIdle /\ ProgrammeIdle /\ TestIdle /\ LaterIdle

MergeNext ==
    \/ UnifiedAppend
    \/ UnifiedSkip
    \/ UnifiedWrite
    \/ MergeFile
    \/ MergeFileFailed
    \/ MergeWrite
    \/ SnowChannel
    \/ SnowProgramme
    \/ SnowRegroup

\* the mergers over the same sources, then snow_epg's process_epg_file over
\* the merged file
MergeSpec == MergeInit /\ [][MergeNext]_vars

RunInit ==
    /\ pc = "run"
    /\ ResolverIdle
    /\ MergeIdle
    /\ TimeIdle
    /\ UnifiedIdle /\ ProgrammeIdle /\ TestIdle /\ LaterIdle
    /\ program \in Programs
    /\ \E n \in 1..MaxSources : sources \in [1..n -> SourcesOf(program)]
    /\ source_index = 1
    /\ attempted = {}
    /\ produced = {}
    /\ run_success_count = 0
    /\ scratch = {}
    /\ exit_status = None

RunNext ==
    \/ ProcessSourcesStep
    \/ ProcessSourcesExit
    \/ ProcessMultipleFilesStep
    \/ ProcessMultipleFilesExit
    \/ MergeEpgFilesStep
    \/ SnowEpgExit
    \/ ProcessEpgSourcesStep
    \/ ProcessEpgSourcesExit

\* one script run over its ordered sources
RunSpec == RunInit /\ [][RunNext]_vars

UnifiedInit ==
    /\ pc = "unified_main"
    /\ ResolverIdle
    /\ MergeIdle
    /\ TimeIdle
    /\ RunIdle /\ ProgrammeIdle /\ TestIdle /\ LaterIdle
    /\ \E n \in 1..MaxScripts : scripts \in [1..n -> Scripts]
    /\ script_index = 1
    /\ temp_dir = {}
    /\ all_xml_contents = <<>>
    /\ all_script_names = <<>>

UnifiedNext ==
    \/ RunScript
    \/ UnifiedMainNothing
    \/ UnifiedMainWrite

\* the unified generator over the discovered scripts
UnifiedSpec == UnifiedInit /\ [][UnifiedNext]_vars

ProgrammeInit ==
    /\ pc = "programme"
    /\ ResolverIdle
    /\ MergeIdle
    /\ TimeIdle
    /\ RunIdle /\ UnifiedIdle /\ TestIdle /\ LaterIdle
    /\ original_programme \in Programmes
    /\ programme = original_programme
    /\ source_config \in SourceConfigs
    /\ channel_info \in ChannelInfos
    /\ start_policy = "none"
    /\ stop_policy = "none"

ProgrammeNext ==
    \/ ProcessProgrammeElement
    \/ AppendProgramme
    \/ ConvertUtc2TargetProgramme

\* process_programme on one copied programme
ProgrammeSpec == ProgrammeInit /\ [][ProgrammeNext]_vars

TestInit ==
    /\ pc = "test"
    /\ ResolverIdle
    /\ MergeIdle
    /\ TimeIdle
    /\ RunIdle /\ UnifiedIdle /\ ProgrammeIdle /\ LaterIdle
    /\ test_doc \in Documents
    /\ test_i = 1
    /\ test_root = test_doc
    /\ test_channel_id_counter = EmptyDict
    /\ test_current_mapping = EmptyDict

TestNext ==
    \/ TestChannel
    \/ TestProgramme
    \/ TestOther
    \/ TestWrite

\* epg_test.process_epg_file over every document
TestSpec == TestInit /\ [][TestNext]_vars

\* longest document handed to a resolver that is then run again
MaxRerunLen == 3

RerunInit ==
    /\ \E d \in SeqsUpTo(Elements, MaxRerunLen) : ResolverStart(d)
    /\ MergeIdle
    /\ TimeIdle
    /\ RunIdle /\ UnifiedIdle /\ ProgrammeIdle /\ TestIdle /\ LaterIdle

RerunNext ==
    \/ Next
    \/ Rerun

\* the resolvers over every document, then once more over what they wrote
RerunSpec == RerunInit /\ [][RerunNext]_vars

RepairInit ==
    /\ pc = "repair_scan"
    /\ ResolverIdle
    /\ MergeIdle
    /\ TimeIdle
    /\ RunIdle /\ UnifiedIdle /\ ProgrammeIdle /\ TestIdle /\ RerunIdle /\ EmitIdle
    /\ ReportIdle
    /\ file_content \in FileContents
    /\ xml_content = <<>>
    /\ line_index = 1
    /\ repair_info = <<>>

RepairNext ==
    \/ ScanLine
    \/ RepairContent

\* the ampersand repair over every file content
RepairSpec == RepairInit /\ [][RepairNext]_vars

EmitInit ==
    /\ pc = "emit"
    /\ ResolverIdle
    /\ MergeIdle
    /\ TimeIdle
    /\ RunIdle /\ UnifiedIdle /\ ProgrammeIdle /\ TestIdle /\ RerunIdle /\ RepairIdle
    /\ ReportIdle
    /\ epg_sources \in SeqsUpTo(EpgSources, MaxEpgSources)
    /\ epg_index = 1
    /\ entry_index = 1
    /\ added_channels = {}
    /\ new_root = <<>>

EmitNext ==
    \/ SourceNotFetched
    \/ EntryAlreadyAdded
    \/ EntryChannelMissing
    \/ EntryEmitted
    \/ EntriesDone
    \/ WriteEpgpw

\* process_epg_sources over every list of configured sources
EmitSpec == EmitInit /\ [][EmitNext]_vars

ReportInit ==
    /\ pc = "report"
    /\ ResolverIdle
    /\ MergeIdle
    /\ TimeIdle
    /\ RunIdle /\ UnifiedIdle /\ ProgrammeIdle /\ TestIdle /\ RerunIdle /\ RepairIdle
    /\ EmitIdle
    /\ report_doc \in ReportDocuments
    /\ report_i = 1
    /\ report_root = report_doc
    /\ report_channel_id_counter = EmptyDict
    /\ report_current_mapping = EmptyDict
    /\ report_channel_info = EmptyDict
    /\ report_channel_ids_in_order = <<>>
    /\ report_out = <<>>
    /\ report_fault \in {"none", "xml", "gz", "readme", "json"}
    /\ report_written = {}
    /\ readme_rows = <<>>
    /\ json_data = <<>>
    /\ json_file = None

ReportNext ==
    \/ ReportChannel
    \/ ReportProgramme
    \/ ReportOther
    \/ ReportRegroup
    \/ WriteXml
    \/ WriteGz
    \/ WriteReadme
    \/ WriteJson

\* snow_epg.process_epg_file with its report, over every document
ReportSpec == ReportInit /\ [][ReportNext]_vars

----------------------------------------------------------------------------
(* Properties of the resolvers *)

\* the ids of the channel elements of d, in order
ChannelIdsOf(d) == [k \in 1..Len(WithTag(d, "channel")) |-> WithTag(d, "channel")[k].id]

NoDuplicates(l) == \A j, k \in 1..Len(l) : j # k => l[j] # l[k]

\* the number of channel elements of the input up to position p whose id
\* equals, ignoring case, that of the channel at p
Rank(p) ==
    Cardinality({q \in 1..p : /\ doc[q].tag = "channel"
                               /\ Lower(doc[q].id) = Lower(doc[p].id)})

\* the size of the collision group of the channel at p
GroupSize(p) ==
    Cardinality({q \in 1..Len(doc) : /\ doc[q].tag = "channel"
                                      /\ Lower(doc[q].id) = Lower(doc[p].id)})

Suffix(k) == <<" ", "(">> \o IntToStr(k) \o <<")">>

\* C1: after the resolver has run, no two channel elements of the output
\* carry the same case-sensitive id, whatever the ids of the input were.
C1_ChannelIdUniqueness ==
    pc = "done" => /\ NoDuplicates(ChannelIdsOf(snow_out))
                   /\ NoDuplicates(ChannelIdsOf(ms_root))

\* C2: in every case-insensitive collision group the first channel in
\* document order keeps its id and the k-th (k >= 2) gets its own id followed
\* by " (k)", in both resolvers; the regrouped output lists the same ids.
C2_SuffixNumbering ==
    pc = "done" =>
        /\ \A p \in 1..Len(doc) :
              doc[p].tag = "channel" =>
                 LET expected == IF Rank(p) = 1 THEN doc[p].id
                                 ELSE doc[p].id \o Suffix(Rank(p))
                 IN  /\ snow_root[p].id = expected
                     /\ ms_root[p].id = expected
        /\ ChannelIdsOf(snow_out) = ChannelIdsOf(snow_root)

\* C2 witness: a finished run over a document with a collision group of three
C2_Witness ==
    /\ pc = "done"
    /\ \E p \in 1..Len(doc) : doc[p].tag = "channel" /\ GroupSize(p) = 3 /\ Rank(p) = 3
    /\ \E p \in 1..Len(doc) : doc[p].tag = "channel" /\ snow_root[p].id # doc[p].id

\* the programmes of d whose channel attribute is the id of no channel of d
Dangling(d) ==
    {k \in 1..Len(d) : /\ d[k].tag = "programme"
                        /\ ~InList(d[k].channel, ChannelIdsOf(d))}

SnowResolves(p) ==
    \E q \in 1..(p - 1) : doc[q].tag = "channel" /\ doc[q].id = doc[p].channel

\* the two-phase resolver resolves a reference when some channel of the
\* document has that id, ignoring case
MsResolves(p) ==
    \E q \in 1..Len(doc) : /\ doc[q].tag = "channel"
                             /\ Lower(doc[q].id) = Lower(doc[p].channel)

C4_RoundTrip ==
    LET CNN == <<"C", "N", "N">>
        cnn2 == <<"c", "n", "n", " ", "(", "2", ")">>
        expected == <<Channel(CNN), Channel(cnn2), Programme(CNN), Programme(cnn2)>>
    IN  (pc = "done" /\ doc = RoundTripDoc) =>
            snow_out = expected /\ ms_root = expected

----------------------------------------------------------------------------
(* Properties of the time normalizers *)

\* a 14-digit datetime, one blank, a sign and four digits
WellFormed(v) ==
    /\ Len(v) = 20
    /\ Strptime(SubSeq(v, 1, 14)).ok
    /\ v[15] = " "
    /\ v[16] \in {"+", "-"}
    /\ \A k \in 17..20 : v[k] \in Digits

\* the wall-clock time of a well-formed value, in seconds since 1970
NaiveSeconds(v) ==
    LET dt == Strptime(SubSeq(v, 1, 14)).v IN dt.days * 86400 + dt.secs

\* the offset label of a well-formed value, and its length in seconds
Label(v) == SubSeq(v, 16, 20)
LabelSeconds(v) ==
    (IF v[16] = "+" THEN 1 ELSE -1)
        * (DigitsValue(SubSeq(v, 17, 18)) * 3600 + DigitsValue(SubSeq(v, 19, 20)) * 60)

UTC8 == <<"U", "T", "C", "+", "8">>
UTCm5 == <<"U", "T", "C", "-", "5">>
UTC0 == <<"U", "T", "C", "+", "0">>
Plus0530 == <<"+", "0", "5", ":", "3", "0">>

\* the configured zones of the accepted forms "UTC+-N" and "+-HH:MM"
AcceptedZones == {UTC8, UTCm5, UTC0, Plus0530}

\* what each of them means
TargetSeconds(tz) ==
    CASE tz = UTC8 -> 28800
      [] tz = UTCm5 -> -18000
      [] tz = UTC0 -> 0
      [] tz = Plus0530 -> 19800

TargetLabel(tz) ==
    CASE tz = UTC8 -> <<"+", "0", "8", "0", "0">>
      [] tz = UTCm5 -> <<"-", "0", "5", "0", "0">>
      [] tz = UTC0 -> <<"+", "0", "0", "0", "0">>
      [] tz = Plus0530 -> <<"+", "0", "5", "3", "0">>

LastIs(name) == applied # <<>> /\ Last(applied) = name

\* value is the wall-clock time of previous shifted by delta seconds, with label
ShiftedTo(delta, label) ==
    /\ WellFormed(value)
    /\ NaiveSeconds(value) = NaiveSeconds(previous) + delta
    /\ Label(value) = label

\* C5: zone conversion of a well-formed timestamp at offset O1 to the target
\* O2 yields the wall-clock time original + (O2 - O1), rolled over, labelled
\* O2: convert_time_to_timezone for every O1, convert_utc2target and
\* convert_utc2cst for the +0000 they convert; 16:00 +0000 on 16 August is
\* 00:00 +0800 on 17 August.
C5_OffsetConvert ==
    /\ (LastIs("convert_time_to_timezone") /\ WellFormed(previous)
            /\ timezone \in AcceptedZones)
          => ShiftedTo(TargetSeconds(timezone) - LabelSeconds(previous), TargetLabel(timezone))
    /\ (LastIs("convert_utc2target") /\ WellFormed(previous)
            /\ Label(previous) = <<"+", "0", "0", "0", "0">> /\ timezone \in {UTC8, UTCm5, UTC0})
          => /\ outcome = "written"
             /\ ShiftedTo(TargetSeconds(timezone), TargetLabel(timezone))
    /\ (LastIs("convert_utc2cst") /\ WellFormed(previous) /\ Label(previous) = <<"+", "0", "0", "0", "0">>)
          => /\ outcome = "written"
             /\ ShiftedTo(28800, <<"+", "0", "8", "0", "0">>)
    /\ (/\ applied # <<>>
        /\ Last(applied) \in {"convert_time_to_timezone", "convert_utc2target", "convert_utc2cst"}
        /\ previous = <<"2", "0", "2", "5", "0", "8", "1", "6", "1", "6", "0", "0", "0", "0", " ", "+", "0", "0", "0", "0">> /\ timezone = UTC8)
          => value = <<"2", "0", "2", "5", "0", "8", "1", "7", "0", "0", "0", "0", "0", "0", " ", "+", "0", "8", "0", "0">>

\* C5 witness: convert_time_to_timezone has converted a timestamp of a
\* non-zero offset across a day boundary
C5_Witness ==
    /\ LastIs("convert_time_to_timezone")
    /\ WellFormed(previous) /\ timezone \in AcceptedZones
    /\ LabelSeconds(previous) # 0
    /\ Label(value) # Label(previous)
    /\ SubSeq(value, 1, 8) # SubSeq(previous, 1, 8)

\* the embedded offset of v is the eligible source offset +0000
EligibleValue(v) ==
    LET parts == SplitBlank(v) IN Len(parts) = 2 /\ parts[2] = <<"+", "0", "0", "0", "0">>

\* v is a timestamp whose embedded offset is not +0000
OtherOffset(v) == WellFormed(v) /\ Label(v) # <<"+", "0", "0", "0", "0">>

\* C6 (as claimed): under every time policy a timestamp whose embedded offset
\* is not +0000 is returned byte-identical.
C6_EligibilityFilter ==
    (applied # <<>> /\ OtherOffset(previous)) => value = previous

\* C6 (amended): convert_utc2target, in both of its modes, and convert_utc2cst
\* leave a timestamp whose embedded offset is not +0000 byte-identical.
C6_EligibilityFilterOfConverters ==
    (/\ applied # <<>>
     /\ Last(applied) \in {"convert_utc2target", "convert_utc2target_direct", "convert_utc2cst"}
     /\ ~EligibleValue(previous))
        => value = previous

\* C6 witness: convert_utc2target has written a document whose +0800
\* timestamp it passed through
C6_Witness ==
    /\ LastIs("convert_utc2target")
    /\ outcome = "written"
    /\ WellFormed(previous) /\ Label(previous) = <<"+", "0", "8", "0", "0">>
    /\ value = previous

\* C7: relabeling twice with the same zone is relabeling once, for
\* replace_timezone_directly and for the direct mode of convert_utc2target.
C7_RelabelIdempotent ==
    (/\ Len(applied) >= 2
     /\ applied[Len(applied) - 1] = Last(applied)
     /\ Last(applied) \in {"replace_timezone_directly", "convert_utc2target_direct"})
        => value = previous

\* C7 witness: replace_timezone_directly has run twice and the first run
\* changed the label
C7_Witness ==
    /\ applied = <<"replace_timezone_directly", "replace_timezone_directly">>
    /\ WellFormed(original)
    /\ value # original

Unparsable(v) ==
    LET parts == SplitOn(v, " ")
    IN  /\ Len(parts) = 2
        /\ \/ ~Strptime(parts[1]).ok
           \/ ~(/\ Len(parts[2]) = 5
                /\ parts[2][1] \in {"+", "-"}
                /\ \A k \in 2..5 : parts[2][k] \in Digits)

\* C10: a start/stop value whose datetime or offset part cannot be parsed is
\* left as it was by every normalization, and none of them raises.
C10_FailSoft ==
    (applied # <<>> /\ Unparsable(previous)) => (outcome # "raised" /\ value = previous)

----------------------------------------------------------------------------
(* Properties of the mergers *)

\* where each element of d came from
Provenance(d) == [k \in 1..Len(d) |-> <<d[k].src, d[k].pos>>]

\* the first n sources that could be read, one after the other; all of the
\* children, or only the channel and programme elements
RECURSIVE ReadableChildren(_, _)
ReadableChildren(n, keep) ==
    IF n = 0 THEN <<>>
    ELSE ReadableChildren(n - 1, keep)
         \o (IF xml_files[n].readable
             THEN SelectSeq(xml_files[n].content, LAMBDA e : e.tag \in keep)
             ELSE <<>>)

AllTags == {"channel", "programme", "other"}
MergedTags == {"channel", "programme"}

SnowFinished == pc \notin {"unified", "merge", "snow", "time"}

\* C9 (as claimed): the merged output holds the sources' elements source
\* after source, each in its original order, and the document finally emitted
\* still shows that order.
C9_OrderPreservation ==
    /\ pc \notin {"unified", "time"}
          => Provenance(person) = Provenance(ReadableChildren(Len(xml_files), AllTags))
    /\ pc \notin {"unified", "merge", "time"}
          => Provenance(merged) = Provenance(ReadableChildren(Len(xml_files), MergedTags))
    /\ SnowFinished
          => Provenance(snow_out) = Provenance(ReadableChildren(Len(xml_files), MergedTags))

\* C9 (amended): the merged documents (person.xml, epgziyong.xml) hold the
\* readable sources' elements source after source, each in its original order
\* (epgziyong.xml only the channel and programme elements); the document
\* snow_epg finally emits holds the channels of the merged file in that order,
\* then its programmes in that order.
C9_MergedOrderThenRegrouped ==
    /\ pc \notin {"unified", "time"}
          => Provenance(person) = Provenance(ReadableChildren(Len(xml_files), AllTags))
    /\ pc \notin {"unified", "merge", "time"}
          => Provenance(merged) = Provenance(ReadableChildren(Len(xml_files), MergedTags))
    /\ SnowFinished
          => Provenance(snow_out) =
                Provenance(ReadableChildren(Len(xml_files), {"channel"}))
                \o Provenance(ReadableChildren(Len(xml_files), {"programme"}))

\* C9 witness: two readable sources, each a programme before a channel, have
\* been merged and the result regrouped
C9_Witness ==
    /\ SnowFinished
    /\ Len(xml_files) = 2
    /\ \A k \in 1..2 : /\ xml_files[k].readable
                       /\ Len(xml_files[k].content) = 2
                       /\ xml_files[k].content[1].tag = "programme"
                       /\ xml_files[k].content[2].tag = "channel"
    /\ Provenance(snow_out) # Provenance(merged)

----------------------------------------------------------------------------
(* Properties of a run over an ordered list of sources *)

\* a source that, taken alone, is fetched, decoded, parsed and converted
Succeeds(s) == s.fault = "ok" /\ s.stamp = GoodStamp

\* a source that fails to be fetched, decoded or parsed
Fails(s) == s.fault # "ok"

\* C11: when the run has ended, every source of the list was attempted and
\* every source that succeeds on its own has its output, whatever failed
\* before it.
C11_FailureContainment ==
    pc = "exited" =>
        /\ attempted = 1..Len(sources)
        /\ \A k \in 1..Len(sources) : Succeeds(sources[k]) => k \in produced

\* C12: the run of convert_utc2target, multi_source_epg_processor or snow_epg
\* exits with an error exactly when no source was processed successfully.
C12_ExitStatus ==
    (pc = "exited" /\ program \in {"convert_utc2target", "multi_source_epg_processor",
                                    "snow_epg"})
        => (exit_status = Some(1) <=> run_success_count = 0)

\* C13: in snow_epg and down_epg_pw_trans no scratch file of a source is on
\* disk once the loop has moved past that source, however the source ended.
C13_ScratchCleanup ==
    program \in {"snow_epg", "down_epg_pw_trans"}
        => \A f \in scratch : f.owner >= source_index

----------------------------------------------------------------------------
(* Properties of the unified generator *)

\* the scripts that end successfully with their XML file written
Successful == {k \in 1..Len(scripts) : scripts[k].returns /\ scripts[k].writes}

\* how many times the first element of script k's file is in person.xml
Copies(k) == Cardinality({j \in 1..Len(person) : person[j].src = k /\ person[j].pos = 1})

\* C14: what is collected after a script is that script's own file, so that
\* person.xml holds the elements of every successful script exactly once and
\* nothing of a script is collected for another one.
C14_UnifiedCollectsOwnFile ==
    /\ \A j \in 1..Len(all_xml_contents) : all_xml_contents[j] = all_script_names[j]
    /\ pc = "unified_done" => \A k \in 1..Len(scripts) :
                                  Copies(k) = IF k \in Successful THEN 1 ELSE 0

----------------------------------------------------------------------------
(* Properties of process_programme *)

TimePolicies == {"adjust_time_with_offset", "replace_timezone_directly",
                 "convert_time_to_timezone"}

\* the precedence among the policies: the minute offset when it is configured,
\* else the direct relabel when it is configured, else the zone conversion
Precedence(policy) ==
    /\ channel_info.time_offset_minutes # None => policy = "adjust_time_with_offset"
    /\ policy = "convert_time_to_timezone" =>
          /\ channel_info.time_offset_minutes = None
          /\ ~FlagValue(channel_info.direct_set_timezone)
    /\ policy = "replace_timezone_directly" =>
          FlagValue(channel_info.direct_set_timezone)

\* a programme that has start and stop, of a source whose timezone is set
HasTimes ==
    programme.start # <<>> /\ programme.stop # <<>> /\ source_config.timezone # <<>>

\* C15: every programme with start and stop that process_epg_sources puts in
\* its output had exactly one policy applied, the same to start and to stop,
\* chosen with the minute offset before the direct relabel before the zone
\* conversion.
C15_PolicySelection ==
    (pc = "programme_appended" /\ HasTimes) =>
        /\ start_policy \in TimePolicies
        /\ stop_policy = start_policy
        /\ Precedence(start_policy)

\* the same for the programmes that carry a title
PolicySelectionOfTitled ==
    (pc = "programme_appended" /\ HasTimes /\ Strip(programme.title) # <<>>) =>
        /\ start_policy \in TimePolicies
        /\ stop_policy = start_policy
        /\ Precedence(start_policy)

----------------------------------------------------------------------------
(* Properties of the resolvers: which channel a programme is bound to *)

\* the channel elements before position p whose original id is exactly the
\* reference of the programme at p
PrecedingBlocks(p) ==
    {q \in 1..(p - 1) : doc[q].tag = "channel" /\ doc[q].id = doc[p].channel}

\* the channel elements after position p with that original id
LaterBlocks(p) ==
    {q \in (p + 1)..Len(doc) : doc[q].tag = "channel" /\ doc[q].id = doc[p].channel}

Max(S) == CHOOSE m \in S : \A n \in S : n <= m

\* the programme at p is bound, in the tree root, to the channel at q
BoundTo(root, p, q) == root[p].channel = root[q].id

\* C16: a programme with a preceding channel element of exactly its reference
\* is bound to the resolved id of the nearest such element, in both resolvers.
C16_NearestPrecedingBinding ==
    pc = "done" =>
        \A p \in 1..Len(doc) :
            (doc[p].tag = "programme" /\ PrecedingBlocks(p) # {}) =>
                /\ BoundTo(snow_root, p, Max(PrecedingBlocks(p)))
                /\ BoundTo(ms_root, p, Max(PrecedingBlocks(p)))

\* the same for snow_epg alone
NearestPrecedingBindingOfSnow ==
    pc = "done" =>
        \A p \in 1..Len(doc) :
            (doc[p].tag = "programme" /\ PrecedingBlocks(p) # {}) =>
                BoundTo(snow_root, p, Max(PrecedingBlocks(p)))

\* C17: a programme that comes before every channel element of its id, while
\* such an element exists later, is bound to the resolved id of the last
\* channel element of that id, in both resolvers.
C17_LastKnownFallback ==
    pc = "done" =>
        \A p \in 1..Len(doc) :
            (doc[p].tag = "programme" /\ PrecedingBlocks(p) = {} /\ LaterBlocks(p) # {}) =>
                /\ BoundTo(snow_root, p, Max(LaterBlocks(p)))
                /\ BoundTo(ms_root, p, Max(LaterBlocks(p)))

\* the programme at p refers to an id no channel element of the document has,
\* case ignored
Unresolvable(p) == doc[p].tag = "programme" /\ ~MsResolves(p)

\* C18: a programme whose reference matches no channel of the document keeps
\* its channel attribute, start and stop as in the input, at its place in the
\* tree of both resolvers, and is among the elements snow_epg emits.
C18_UnresolvableKept ==
    pc = "done" =>
        \A p \in 1..Len(doc) :
            Unresolvable(p) =>
                /\ snow_root[p].tag = "programme"
                /\ snow_root[p].channel = doc[p].channel
                /\ snow_root[p].start = doc[p].start
                /\ snow_root[p].stop = doc[p].stop
                /\ ms_root[p] = snow_root[p]
                /\ InList(doc[p], snow_out)
                /\ Len(WithTag(snow_out, "programme")) = Len(WithTag(doc, "programme"))

\* a finished run over a document with an unresolvable programme of an
\* upper-case id next to a channel that was renamed
C18_Witness ==
    /\ pc = "done"
    /\ \E p \in 1..Len(doc) : Unresolvable(p) /\ doc[p].channel = <<"A">>
    /\ \E q \in 1..Len(doc) : doc[q].tag = "channel" /\ snow_root[q].id # doc[q].id

----------------------------------------------------------------------------
(* Properties of the resolvers: the casing policy *)

\* the number of channel elements of d up to position p whose id equals,
\* ignoring case, that of the channel at p
RankIn(d, p) ==
    Cardinality({q \in 1..p : d[q].tag = "channel" /\ Lower(d[q].id) = Lower(d[p].id)})

\* the first channel element of d whose id equals, ignoring case, that of the
\* channel at p
FirstIn(d, p) ==
    CHOOSE q \in 1..p : /\ d[q].tag = "channel"
                         /\ Lower(d[q].id) = Lower(d[p].id)
                         /\ RankIn(d, q) = 1

\* the channel ids of root follow the casing policy for the input d: the first
\* channel of a lower-cased id keeps its id whatever its casing, the n-th gets
\* its own id followed by " (n)"
CasingPolicy(d, root) ==
    \A p \in 1..Len(d) :
        d[p].tag = "channel" =>
            /\ RankIn(d, p) = 1 => root[p].id = d[p].id
            /\ RankIn(d, p) > 1 => root[p].id = d[p].id \o Suffix(RankIn(d, p))

\* lowercase_to_original holds, for every lower-cased id, the id of its first
\* channel element as written
FirstSeenCasing ==
    \A p \in 1..Len(doc) :
        doc[p].tag = "channel" =>
            /\ Lower(doc[p].id) \in DOMAIN ms_lowercase_to_original
            /\ ms_lowercase_to_original[Lower(doc[p].id)] = doc[FirstIn(doc, p)].id

\* C19: collisions are detected ignoring case, lowercase_to_original keeps the
\* first-seen casing, the first channel of a key is never suffixed and every
\* suffixed id is the channel's own id followed by " (n)": in the two-phase
\* resolver and in epg_test.
C19_CasingPolicy ==
    /\ pc = "done" => CasingPolicy(doc, ms_root) /\ FirstSeenCasing
    /\ pc = "test_done" => CasingPolicy(test_doc, test_root)

\* the casing policy in the two-phase resolver and in snow_epg
CasingPolicyOfResolvers ==
    pc = "done" => /\ CasingPolicy(doc, ms_root) /\ FirstSeenCasing
                   /\ CasingPolicy(doc, snow_root)

\* an entry of lowercase_to_original, once written, is never overwritten
LowercaseToOriginalWrittenOnce ==
    [][\A key \in DOMAIN ms_lowercase_to_original :
          /\ key \in DOMAIN ms_lowercase_to_original'
          /\ ms_lowercase_to_original'[key] = ms_lowercase_to_original[key]]_vars

----------------------------------------------------------------------------
(* Properties of the resolvers: no element is deleted or merged *)

\* the number of elements of d with the given tag
CountOf(d, tag) == Len(WithTag(d, tag))

\* C20: the output of each resolver has as many channel elements and as many
\* programme elements as the input, also when channel ids are equal up to case.
C20_ElementCountsPreserved ==
    pc = "done" =>
        \A tag \in {"channel", "programme"} :
            /\ CountOf(snow_out, tag) = CountOf(doc, tag)
            /\ CountOf(ms_root, tag) = CountOf(doc, tag)

\* a finished run over a document with two channels whose ids differ only in
\* case, and a programme
C20_Witness ==
    /\ pc = "done"
    /\ \E p, q \in 1..Len(doc) :
          /\ p < q
          /\ doc[p].tag = "channel" /\ doc[q].tag = "channel"
          /\ doc[p].id # doc[q].id
          /\ Lower(doc[p].id) = Lower(doc[q].id)
    /\ CountOf(doc, "programme") > 0
    /\ CountOf(snow_out, "channel") >= 2

----------------------------------------------------------------------------
(* Properties of the resolvers: regrouping, variants, a second run *)

\* the place of an element's group in the emitted document
GroupOf(e) == IF e.tag = "channel" THEN 1 ELSE IF e.tag = "programme" THEN 2 ELSE 3

\* C24: snow_epg emits the channels, then the programmes, then the other
\* elements, each group in the order of the input; a programme's binding is
\* the one decided at its place in the interleaved input: the resolved id of
\* the nearest preceding channel of its id, else its reference as it was.
C24_RegroupAfterBinding ==
    pc = "done" =>
        /\ Len(snow_out) = Len(doc)
        /\ \A j, k \in 1..Len(snow_out) :
              j < k => GroupOf(snow_out[j]) <= GroupOf(snow_out[k])
        /\ \A tag \in {"channel", "programme", "other"} :
              WithTag(snow_out, tag) = WithTag(snow_root, tag)
        /\ \A p \in 1..Len(doc) :
              doc[p].tag = "programme" =>
                 snow_root[p].channel =
                     IF PrecedingBlocks(p) # {}
                     THEN snow_root[Max(PrecedingBlocks(p))].id
                     ELSE doc[p].channel

\* a finished run over a document with a programme ahead of a channel, in
\* which a later programme was bound to a renamed channel
C24_Witness ==
    /\ pc = "done"
    /\ snow_out # snow_root
    /\ \E p, q \in 1..Len(doc) :
          p < q /\ doc[p].tag = "programme" /\ doc[q].tag = "channel"
    /\ \E p \in 1..Len(doc) :
          doc[p].tag = "programme" /\ snow_root[p].channel # doc[p].channel

\* C29: the single-pass and the two-phase resolver give every channel element
\* the same id and every programme element the same channel reference.
C29_VariantEquivalence ==
    pc = "done" => snow_root = ms_root

\* the two resolvers agree on the ids of the channel elements
VariantsAgreeOnChannels ==
    pc = "done" => ChannelIdsOf(snow_root) = ChannelIdsOf(ms_root)

\* C28: a resolver run again over the document it wrote changes no channel id
\* and no channel reference of a programme.
C28_Idempotence ==
    pc = "done" =>
        /\ rerun = "snow_epg" => snow_root = doc
        /\ rerun = "two_phase" => ms_root = doc

\* the same for documents whose channel ids are all different, case ignored
IdempotenceWithoutCollision ==
    (pc = "done" /\ NoDuplicates([k \in 1..Len(ChannelIdsOf(doc)) |-> Lower(ChannelIdsOf(doc)[k])])) =>
        /\ rerun = "snow_epg" => ChannelIdsOf(snow_root) = ChannelIdsOf(doc)
        /\ rerun = "two_phase" => ChannelIdsOf(ms_root) = ChannelIdsOf(doc)

----------------------------------------------------------------------------
(* Properties of process_programme: the programmes of the written document *)

\* C27: every programme process_epg_sources puts in its document refers to
\* the new channel id, and its start and stop went through the channel's time
\* policy, the programmes without a title or with an empty one included.
C27_ProgrammesBoundAndNormalized ==
    pc = "programme_appended" =>
        /\ programme.channel = NewChannelId
        /\ HasTimes => start_policy = TimePolicy(channel_info) /\ stop_policy = TimePolicy(channel_info)

\* the same for the programmes that carry a title
TitledProgrammesBoundAndNormalized ==
    (pc = "programme_appended" /\ Strip(programme.title) # <<>>) =>
        /\ programme.channel = NewChannelId
        /\ HasTimes => start_policy = TimePolicy(channel_info) /\ stop_policy = TimePolicy(channel_info)

\* stop - start of a programme whose start and stop are well-formed, in seconds
Duration(p) == NaiveSeconds(p.stop) - NaiveSeconds(p.start)

\* the programme of the source has a well-formed start and stop of one offset
SameOffsetTimes ==
    /\ WellFormed(original_programme.start)
    /\ WellFormed(original_programme.stop)
    /\ Label(original_programme.start) = Label(original_programme.stop)

\* one policy has rewritten the start and the stop
Normalized ==
    /\ pc \in {"programme_done", "programme_appended", "converted"}
    /\ start_policy # "none"
    /\ stop_policy = start_policy

\* C30: when start and stop are well-formed and of one offset, normalization
\* under a single policy leaves stop - start as it was and gives start and
\* stop the same offset label.
C30_DurationPreserved ==
    (SameOffsetTimes /\ Normalized) =>
        /\ WellFormed(programme.start)
        /\ WellFormed(programme.stop)
        /\ Duration(programme) = Duration(original_programme)
        /\ Label(programme.start) = Label(programme.stop)

\* a programme with start and stop of one offset was converted to another
\* zone, by the zone conversion of process_programme or by convert_utc2target,
\* and its wall-clock start has changed
C30_Witness ==
    /\ SameOffsetTimes /\ Normalized
    /\ start_policy \in {"convert_time_to_timezone", "convert_utc2target"}
    /\ Label(programme.start) # Label(original_programme.start)
    /\ SubSeq(programme.start, 1, 14) # SubSeq(original_programme.start, 1, 14)
    /\ Duration(original_programme) > 0

----------------------------------------------------------------------------
(* Properties of the ampersand repair *)

\* the positions of the ampersands of text
Ampersands(text) == {k \in 1..Len(text) : text[k] = "&"}

\* text without the four characters that follow each position of S
RECURSIVE Without(_, _, _)
Without(text, S, k) ==
    IF k > Len(text) THEN <<>>
    ELSE IF \E a \in S : k \in (a + 1)..(a + 4) THEN Without(text, S, k + 1)
    ELSE <<text[k]>> \o Without(text, S, k + 1)

\* C26: after the repair every ampersand is followed by one of the five
\* entity names; the text is the file content with "amp;" put in after some
\* ampersands and nothing else changed; and as many repairs were recorded,
\* line by line, as ampersands were escaped.
C26_AmpersandRepair ==
    pc = "repaired" =>
        /\ \A k \in Ampersands(xml_content) :
              \E e \in Entities : FollowedBy(xml_content, k, e)
        /\ \E S \in SUBSET Ampersands(xml_content) :
              /\ \A a \in S : FollowedBy(xml_content, a, <<"a", "m", "p", ";">>)
              /\ Without(xml_content, S, 1) = file_content
              /\ Cardinality(S) = Len(repair_info)
        /\ \A r \in 1..Len(repair_info) :
              SplitLines(file_content)[repair_info[r].line][repair_info[r].column] = "&"

\* a repaired text of two lines in which two ampersands were escaped and an
\* entity was left as it was
C26_Witness ==
    /\ pc = "repaired"
    /\ Len(repair_info) = 2
    /\ Len(SplitLines(file_content)) = 2
    /\ Cardinality(Ampersands(file_content)) = 3

----------------------------------------------------------------------------
(* Properties of process_epg_sources *)

\* the entries that can supply the new id n: the source was fetched and holds
\* the entry's original channel
Suppliers(n) ==
    {se \in (1..Len(epg_sources)) \X (1..MaxEntries + 1) :
        /\ se[2] <= Len(epg_sources[se[1]].channel_info)
        /\ epg_sources[se[1]].fetched
        /\ epg_sources[se[1]].channel_info[se[2]].new_channel_id = n
        /\ epg_sources[se[1]].channel_info[se[2]].channel_id \in epg_sources[se[1]].channels}

\* source order, then entry order
Earlier(a, b) == a[1] < b[1] \/ (a[1] = b[1] /\ a[2] <= b[2])

NewChannelIds == {e.new_channel_id : e \in Entries}

\* C25: the written document holds each new channel id at most once, taken
\* from the first entry, in source order then entry order, whose source was
\* fetched and holds the original channel; an id no such entry supplies is
\* absent.
C25_NewChannelOnce ==
    pc = "emitted" =>
        \A n \in NewChannelIds :
            LET emitted == {k \in 1..Len(new_root) : new_root[k].id = n}
            IN  /\ Cardinality(emitted) <= 1
                /\ Suppliers(n) = {} => emitted = {}
                /\ Suppliers(n) # {} =>
                      \E k \in emitted :
                          LET first == <<new_root[k].source, new_root[k].entry>>
                          IN  /\ first \in Suppliers(n)
                              /\ \A se \in Suppliers(n) : Earlier(first, se)

\* a finished run in which an entry of the first source named a new id
\* without supplying it, the second source supplied it, and another entry
\* that could have supplied it was skipped
C25_Witness ==
    /\ pc = "emitted"
    /\ Len(epg_sources) = 2
    /\ \E n \in NewChannelIds :
          /\ Cardinality(Suppliers(n)) >= 2
          /\ \E k \in 1..Len(new_root) :
                /\ new_root[k].id = n
                /\ new_root[k].source = 2
          /\ \E j \in 1..Len(epg_sources[1].channel_info) :
                epg_sources[1].channel_info[j].new_channel_id = n

----------------------------------------------------------------------------
(* Properties of the report and the artifacts of snow_epg *)

ReportExited == pc \in {"report_done", "report_raised"}

\* C21: output-artifact independence.  When process_epg_file of snow_epg is
\* left, every artifact (XML, gzip copy, Markdown report, JSON report) other
\* than the one whose write failed has been written.
C21_ArtifactIndependence ==
    ReportExited =>
        \A k \in 1..Len(Artifacts) :
            Artifacts[k] # report_fault => Artifacts[k] \in report_written

\* the programme elements of the output document bound to an id
BoundProgrammes(id) ==
    {k \in 1..Len(report_out) :
        /\ report_out[k].tag = "programme"
        /\ report_out[k].channel = id}

\* the earliest of the starts (or the latest of the stops) of a set of
\* programmes, as the report prints it; None when one of them is no date
Extreme(P, attr, latest) ==
    LET dts == {Strptime(Slice(report_out[k][attr], 0, 14)) : k \in P}
    IN  IF \E r \in dts : ~r.ok
        THEN None
        ELSE LET best == CHOOSE r \in dts :
                             \A q \in dts :
                                 IF latest THEN Seconds(q.v) <= Seconds(r.v)
                                 ELSE Seconds(r.v) <= Seconds(q.v)
             IN  Some(StrftimeReport(best.v))

\* the statistics a row of the report should show for its channel
StatisticsHold(row) ==
    LET P == BoundProgrammes(row.channel_id)
    IN  /\ row.count = Cardinality(P)
        /\ P = {} => row.date_range = None
        /\ P # {} =>
              /\ Extreme(P, "start", FALSE) # None
              /\ Extreme(P, "stop", TRUE) # None
              /\ row.date_range = Some(<<Extreme(P, "start", FALSE)[1],
                                         Extreme(P, "stop", TRUE)[1]>>)

\* C22: per-channel statistics.  For every channel of the written report, the
\* programme count is the number of programme elements of the output document
\* bound to the channel's resolved id, the earliest start is the minimum start
\* and the latest stop the maximum stop over exactly those programmes.
C22_ChannelStatistics ==
    "readme" \in report_written =>
        \A k \in 1..Len(readme_rows) : StatisticsHold(readme_rows[k])

\* the input has every programme after a channel element of exactly its
\* reference, with start and stop that are dates, and the resolved ids differ
ResolvedInPlace ==
    /\ \A p \in 1..Len(report_doc) :
          report_doc[p].tag = "programme" =>
              /\ \E q \in 1..(p - 1) :
                    /\ report_doc[q].tag = "channel"
                    /\ report_doc[q].id = report_doc[p].channel
              /\ Strptime(Slice(report_doc[p].start, 0, 14)).ok
              /\ Strptime(Slice(report_doc[p].stop, 0, 14)).ok
    /\ \A j, k \in 1..Len(report_channel_ids_in_order) :
          report_channel_ids_in_order[j] = report_channel_ids_in_order[k] => j = k

\* the statistics are right for documents whose programmes are resolved at
\* their place and counted, and whose resolved ids are distinct
StatisticsOfResolvedProgrammes ==
    ("readme" \in report_written /\ ResolvedInPlace) =>
        \A k \in 1..Len(readme_rows) : StatisticsHold(readme_rows[k])

\* C23: once the Markdown and the JSON report are written, each holds one row
\* per channel element of the document, in the document order of the channel
\* elements, and both list the same ids in the same order with the same
\* counts.
C23_ReportRows ==
    pc = "report_done" =>
        /\ json_file # None
        /\ Len(readme_rows) = CountOf(report_doc, "channel")
        /\ Len(json_file[1]) = Len(readme_rows)
        /\ \A k \in 1..Len(readme_rows) :
              /\ readme_rows[k].channel_id = ChannelIdsOf(report_out)[k]
              /\ json_file[1][k].channel_id = readme_rows[k].channel_id
              /\ json_file[1][k].programme_count = readme_rows[k].count

\* both reports written for a document in which two channel elements were
\* given the same resolved id, so that two rows carry one id
C23_Witness ==
    /\ pc = "report_done"
    /\ \E j, k \in 1..Len(readme_rows) :
          /\ j < k
          /\ readme_rows[j].channel_id = readme_rows[k].channel_id

====
